---- MODULE Spec2Model ----
(***************************************************************************)
(* A model of coreason-publisher's release workflow: the Electronic        *)
(* Signer's bundle hash, the Version Manager's version arithmetic and the  *)
(* PublisherOrchestrator's three transitions (propose_release,             *)
(* finalize_release, reject_release) with their collaborators.             *)
(*                                                                         *)
(* Text is modelled as a sequence of one-character strings, a directory    *)
(* tree as a function from relative paths (sequences of path components)   *)
(* to file records.  SHA-256 is idealised as collision free: the digest    *)
(* of a byte stream is represented by the stream itself.                   *)
(***************************************************************************)
EXTENDS Integers, Sequences, FiniteSets, TLC

\* ------------------------------------------------------------------ bounds

\* How many transitions (calls of propose/finalize/reject) one behaviour makes.
MaxTransitions == 3

\* At most this many collaborator calls fail for reasons outside the program's state
\* (an I/O error, an unreachable service) in one behaviour.
MaxFailures == 1

\* How many requests the HTTP server receives.
MaxRequests == 2

\* How many times the tree on disk is changed after it was signed.
MaxMutations == 2

\* ------------------------------------------------------------------ text

None == <<"None">>

\* The ASCII characters " " (32) to "_" (95) and "a" (97) to "~" (126), each in
\* code-point order.
AsciiLow ==
  <<" ", "!", "\"", "#", "$", "%", "&", "'", "(", ")", "*", "+", ",", "-", ".", "/",
    "0", "1", "2", "3", "4", "5", "6", "7", "8", "9", ":", ";", "<", "=", ">", "?",
    "@", "A", "B", "C", "D", "E", "F", "G", "H", "I", "J", "K", "L", "M", "N", "O",
    "P", "Q", "R", "S", "T", "U", "V", "W", "X", "Y", "Z", "[", "\\", "]", "^", "_">>
AsciiHigh ==
  <<"a", "b", "c", "d", "e", "f", "g", "h", "i", "j", "k", "l", "m", "n", "o",
    "p", "q", "r", "s", "t", "u", "v", "w", "x", "y", "z", "{", "|", "}", "~">>

\* Code points of the characters (Python compares str by code point); "\n" is 10.
CodePoint ==
  [c \in {AsciiLow[i] : i \in 1..Len(AsciiLow)} \cup {AsciiHigh[i] : i \in 1..Len(AsciiHigh)}
          \cup {"\n"} |->
     IF c = "\n" THEN 10
     ELSE IF \E i \in 1..Len(AsciiLow) : AsciiLow[i] = c
          THEN 31 + (CHOOSE i \in 1..Len(AsciiLow) : AsciiLow[i] = c)
          ELSE 96 + (CHOOSE i \in 1..Len(AsciiHigh) : AsciiHigh[i] = c)]

\* Python's str "<": lexicographic by code point, a proper prefix is smaller.
RECURSIVE StrLess(_, _)
StrLess(a, b) ==
  IF b = <<>> THEN FALSE
  ELSE IF a = <<>> THEN TRUE
  ELSE IF a[1] # b[1] THEN CodePoint[a[1]] < CodePoint[b[1]]
  ELSE StrLess(Tail(a), Tail(b))

\* The concatenation of a sequence of texts.
RECURSIVE Concat(_)
Concat(ss) == IF ss = <<>> THEN <<>> ELSE Head(ss) \o Concat(Tail(ss))

\* sep.join(parts)
RECURSIVE Join(_, _)
Join(parts, sep) ==
  IF parts = <<>> THEN <<>>
  ELSE IF Len(parts) = 1 THEN parts[1]
  ELSE parts[1] \o sep \o Join(Tail(parts), sep)

\* s.split(sep) for a one-character separator: always at least one field.
Split(s, sep) ==
  LET seps == {i \in 1..Len(s) : s[i] = sep}
      \* the position of the k-th separator; 0 and Len(s) + 1 bound the fields
      pos(k) == IF k = 0 THEN 0
                ELSE IF k > Cardinality(seps) THEN Len(s) + 1
                ELSE CHOOSE i \in seps : Cardinality({j \in seps : j <= i}) = k
  IN  [k \in 1..(Cardinality(seps) + 1) |-> SubSeq(s, pos(k - 1) + 1, pos(k) - 1)]

\* s.replace(old, new) for one-character old and new.
Replace(s, old, new) == [i \in 1..Len(s) |-> IF s[i] = old THEN new ELSE s[i]]

\* s.lstrip(c): every leading c is removed.
RECURSIVE LStrip(_, _)
LStrip(s, c) == IF s # <<>> /\ Head(s) = c THEN LStrip(Tail(s), c) ELSE s

Digits == <<"0", "1", "2", "3", "4", "5", "6", "7", "8", "9">>
IsDigit(c) == \E i \in 1..10 : Digits[i] = c
DigitValue(c) == (CHOOSE i \in 1..10 : Digits[i] = c) - 1

\* The value of a non-empty run of decimal digits.
RECURSIVE DigitsValue(_)
DigitsValue(s) ==
  IF s = <<>> THEN 0
  ELSE DigitsValue(SubSeq(s, 1, Len(s) - 1)) * 10 + DigitValue(s[Len(s)])

AllDigits(s) == s # <<>> /\ \A i \in 1..Len(s) : IsDigit(s[i])

\* s.strip() for the whitespace of the model's alphabet.
RECURSIVE Strip(_)
Strip(s) ==
  IF s # <<>> /\ Head(s) \in {" ", "\n"} THEN Strip(Tail(s))
  ELSE IF s # <<>> /\ s[Len(s)] \in {" ", "\n"} THEN Strip(SubSeq(s, 1, Len(s) - 1))
  ELSE s

\* The literal int() takes after the sign: decimal digits, single underscores
\* allowed between two digits.
IsUnsigned(u) ==
  /\ u # <<>> /\ IsDigit(u[1]) /\ IsDigit(u[Len(u)])
  /\ \A i \in 1..Len(u) : IsDigit(u[i]) \/ (u[i] = "_" /\ i > 1 /\ u[i - 1] # "_")

\* int(s) over the model's alphabet: surrounding whitespace is dropped, then an
\* optional sign and the literal.
IsInt(s) ==
  LET t == Strip(s)
  IN  IsUnsigned(IF t # <<>> /\ Head(t) \in {"-", "+"} THEN Tail(t) ELSE t)
IntOf(s) ==
  LET t == Strip(s)
      u == IF Head(t) \in {"-", "+"} THEN Tail(t) ELSE t
      n == DigitsValue(SelectSeq(u, IsDigit))
  IN  IF Head(t) = "-" THEN 0 - n ELSE n

\* str(n) for an integer n.
RECURSIVE NatStr(_)
NatStr(n) == IF n < 10 THEN <<Digits[n + 1]>> ELSE NatStr(n \div 10) \o <<Digits[(n % 10) + 1]>>
IntStr(n) == IF n < 0 THEN <<"-">> \o NatStr(0 - n) ELSE NatStr(n)

\* ------------------------------------------------------------------ trees

\* A directory tree is a function from relative paths to [kind, content]; a path is
\* the sequence of its components (Path.parts), kind is "file", "symlink" or "dir".
DotGit == <<".", "g", "i", "t">>

InParts(part, p) == \E i \in 1..Len(p) : p[i] = part

\* str(path.relative_to(bundle_path)) on a POSIX system.
RelPathStr(p) == Join(p, <<"/">>)

\* The tree with path p holding a regular file of the given content.
WriteFile(tree, p, content) ==
  [q \in DOMAIN tree \cup {p} |->
     IF q = p THEN [kind |-> "file", content |-> content] ELSE tree[q]]

\* ------------------------------------------------------------------ ElectronicSigner

\* A collection that looks for ".git" only in the first part of the relative path.
files_to_hash_top(tree) ==
  {p \in DOMAIN tree : tree[p].kind = "file" /\ p[1] # DotGit}

\* The files calculate_bundle_hash collects: regular files that are no symlinks and
\* have no ".git" among the parts of their relative path.
files_to_hash(tree) ==
  {p \in DOMAIN tree : tree[p].kind = "file" /\ ~InParts(DotGit, p)}

\* files_to_hash.sort(key=lambda p: str(p.relative_to(bundle_path)))
RECURSIVE SortByRelPath(_)
SortByRelPath(S) ==
  IF S = {} THEN <<>>
  ELSE LET m == CHOOSE p \in S : \A q \in S : ~StrLess(RelPathStr(q), RelPathStr(p))
       IN  <<m>> \o SortByRelPath(S \ {m})

\* What one file feeds the hash: its relative path with "\" normalised to "/", then
\* its content.
HashInput(tree, p) == Replace(RelPathStr(p), "\\", "/") \o tree[p].content

\* calculate_bundle_hash: the digest of the stream of all hashed files in sorted order.
calculate_bundle_hash(tree) ==
  LET sorted == SortByRelPath(files_to_hash(tree))
  IN  Concat([i \in 1..Len(sorted) |-> HashInput(tree, sorted[i])])

\* All orders in which the members of S can be listed.
RECURSIVE Orders(_)
Orders(S) ==
  IF S = {} THEN {<<>>}
  ELSE UNION {{<<p>> \o rest : rest \in Orders(S \ {p})} : p \in S}

\* bundle_path.rglob("*"): the entries of the tree, in an order that the filesystem
\* chooses (the order of creation, of the directory's hash table, ...).  The
\* directories that hold an entry are enumerated as well and skipped as non-files;
\* the tree names only the empty ones.
rglob(tree) == Orders(DOMAIN tree)

\* The loop over rglob: the files to hash, in the order of the enumeration.
collect_files_to_hash(tree, listing) ==
  LET keep(p) == p \in files_to_hash(tree)
  IN  SelectSeq(listing, keep)

\* A list that is left in the order of the enumeration.
sort_files_to_hash_omitted(files) == files

\* files_to_hash.sort(key=...) on the list: every file is put before the first one
\* whose key is greater (list.sort is stable; the keys are distinct).
RECURSIVE sort_files_to_hash(_)
sort_files_to_hash(files) ==
  IF files = <<>> THEN <<>>
  ELSE LET front == sort_files_to_hash(SubSeq(files, 1, Len(files) - 1))
           p == files[Len(files)]
           before_p == SelectSeq(front, LAMBDA q : ~StrLess(RelPathStr(p), RelPathStr(q)))
           after_p == SelectSeq(front, LAMBDA q : StrLess(RelPathStr(p), RelPathStr(q)))
       IN  before_p \o <<p>> \o after_p

\* calculate_bundle_hash as it runs on one enumeration of the tree.
calculate_bundle_hash_listed(tree, listing) ==
  LET sorted == sort_files_to_hash(collect_files_to_hash(tree, listing))
  IN  Concat([i \in 1..Len(sorted) |-> HashInput(tree, sorted[i])])

\* create_signature returns the bundle hash, whoever signs.
create_signature(tree, user_id) == calculate_bundle_hash(tree)

\* A signature that names its signer.
create_signature_listed_by_user(tree, user_id, listing) ==
  calculate_bundle_hash_listed(tree, listing) \o <<user_id>>

\* create_signature as it runs on one enumeration of the tree.
create_signature_listed(tree, user_id, listing) == calculate_bundle_hash_listed(tree, listing)

\* A verification that accepts any signature that was supplied (the comparison with
\* the recomputed hash is lost).
verify_signature_any(tree, signature) == signature # <<>>

\* verify_signature recomputes the hash and compares.
verify_signature(tree, signature) == calculate_bundle_hash(tree) = signature

\* ------------------------------------------------------------------ VersionManager

ValueError == <<"ValueError">>
RuntimeError == <<"RuntimeError">>
OSError == <<"OSError">>

BumpType == {"patch", "minor", "major"}

\* A version lookup that falls back to a default version when there is no tag.
get_current_version_default(last_tag) ==
  IF last_tag # None /\ last_tag # <<>> THEN last_tag ELSE <<"v", "0", ".", "0", ".", "0">>

\* get_current_version: the provider's last tag is the only source of the result
\* (agent.yaml is read for a warning only); no tag gives None.
get_current_version(last_tag) == IF last_tag # None /\ last_tag # <<>> THEN last_tag ELSE None

\* major, minor, patch = map(int, version_str.split(".")) succeeds.
ParsesAsVersion(version_str) ==
  LET fields == Split(version_str, ".")
  IN  Len(fields) = 3 /\ \A i \in 1..3 : IsInt(fields[i])

\* f"v{major}.{minor}.{patch}"
FormatVersion(major, minor, patch) ==
  <<"v">> \o IntStr(major) \o <<".">> \o IntStr(minor) \o <<".">> \o IntStr(patch)

\* A bump that leaves the lower fields as they are.
calculate_next_version_no_reset(current_version, bump_type) ==
  IF current_version = None \/ current_version = <<>> THEN FormatVersion(0, 1, 0)
  ELSE LET version_str == LStrip(current_version, "v")
       IN  IF ~ParsesAsVersion(version_str) THEN ValueError
           ELSE LET fields == Split(version_str, ".")
                    major == IntOf(fields[1])
                    minor == IntOf(fields[2])
                    patch == IntOf(fields[3])
                IN  CASE bump_type = "major" -> FormatVersion(major + 1, minor, patch)
                      [] bump_type = "minor" -> FormatVersion(major, minor + 1, patch)
                      [] OTHER -> FormatVersion(major, minor, patch + 1)

\* calculate_next_version: the new version string, or ValueError.
calculate_next_version(current_version, bump_type) ==
  IF current_version = None \/ current_version = <<>> THEN FormatVersion(0, 1, 0)
  ELSE LET version_str == LStrip(current_version, "v")
       IN  IF ~ParsesAsVersion(version_str) THEN ValueError
           ELSE LET fields == Split(version_str, ".")
                    major == IntOf(fields[1])
                    minor == IntOf(fields[2])
                    patch == IntOf(fields[3])
                IN  CASE bump_type = "major" -> FormatVersion(major + 1, 0, 0)
                      [] bump_type = "minor" -> FormatVersion(major, minor + 1, 0)
                      [] bump_type = "patch" -> FormatVersion(major, minor, patch + 1)
                      [] OTHER -> FormatVersion(major, minor, patch)

\* Python's \s over the model's alphabet, and the quotes of the version pattern.
IsSpace(c) == c \in {" ", "\n"}
IsQuote(c) == c \in {"\"", "'"}
IsValueChar(c) == ~IsSpace(c) /\ ~IsQuote(c)

\* text[i..] starts with the literal.
StartsWithAt(text, i, literal) ==
  /\ i + Len(literal) - 1 <= Len(text)
  /\ \A k \in 1..Len(literal) : text[i + k - 1] = literal[k]

\* The first index from i on whose character is no space (Len(text) + 1 if none).
SkipSpaces(text, i) ==
  CHOOSE j \in i..(Len(text) + 1) :
    /\ \A k \in i..(j - 1) : IsSpace(text[k])
    /\ (j = Len(text) + 1 \/ ~IsSpace(text[j]))

\* The first index from i on whose character is no value character.
SkipValue(text, i) ==
  CHOOSE j \in i..(Len(text) + 1) :
    /\ \A k \in i..(j - 1) : IsValueChar(text[k])
    /\ (j = Len(text) + 1 \/ ~IsValueChar(text[j]))

VersionKey ==
  <<"v", "e", "r", "s", "i", "o", "n", ":">>

\* Where group 3 of ^(version:\s*)(["']?)([^"'\s]+)(["']?) starts when the pattern
\* is tried at index i.
ValueStart(text, i) ==
  LET j == SkipSpaces(text, i + Len(VersionKey))
  IN  IF j <= Len(text) /\ IsQuote(text[j]) THEN j + 1 ELSE j

\* The pattern (re.MULTILINE) matches at index i.
VersionMatchAt(text, i) ==
  /\ (i = 1 \/ text[i - 1] = "\n")
  /\ StartsWithAt(text, i, VersionKey)
  /\ SkipValue(text, ValueStart(text, i)) > ValueStart(text, i)

VersionMatches(text) == {i \in 1..Len(text) : VersionMatchAt(text, i)}

\* re.search: the leftmost match.
FirstVersionMatch(text) ==
  CHOOSE i \in VersionMatches(text) : \A k \in VersionMatches(text) : i <= k

\* _read_agent_yaml_version: group 1 of the leftmost match, None without a match or a file.
AgentYamlPath ==
  << <<"a", "g", "e", "n", "t", ".", "y", "a", "m", "l">> >>
_read_agent_yaml_version(tree) ==
  IF AgentYamlPath \notin DOMAIN tree THEN None
  ELSE LET content == tree[AgentYamlPath].content
       IN  IF VersionMatches(content) = {} THEN None
           ELSE LET vs == ValueStart(content, FirstVersionMatch(content))
                IN  SubSeq(content, vs, SkipValue(content, vs) - 1)

\* f'version: "{version_clean}"\n'
VersionLine(version_clean) == VersionKey \o <<" ", "\"">> \o version_clean \o <<"\"", "\n">>

\* _update_agent_yaml: create the file, replace the value of the first match
\* (re.sub with count=1 keeps groups 1, 2 and 4), or append a version line.
_update_agent_yaml(tree, new_version) ==
  LET version_clean == LStrip(new_version, "v")
  IN  IF AgentYamlPath \notin DOMAIN tree
      THEN WriteFile(tree, AgentYamlPath, VersionLine(version_clean))
      ELSE LET content == tree[AgentYamlPath].content
           IN  IF VersionMatches(content) # {}
               THEN LET vs == ValueStart(content, FirstVersionMatch(content))
                        ve == SkipValue(content, vs)
                    IN  WriteFile(tree, AgentYamlPath,
                                  SubSeq(content, 1, vs - 1) \o version_clean
                                    \o SubSeq(content, ve, Len(content)))
               ELSE WriteFile(tree, AgentYamlPath,
                              content \o <<"\n">> \o VersionLine(version_clean))

\* str.splitlines() over the model's alphabet: "\n" ends a line, no empty last line.
SplitLines(text) ==
  IF text = <<>> THEN <<>>
  ELSE LET fields == Split(text, "\n")
       IN  IF text[Len(text)] = "\n" THEN SubSeq(fields, 1, Len(fields) - 1) ELSE fields

\* line.strip() != ""
NotBlank(line) == \E i \in 1..Len(line) : ~IsSpace(line[i])

ChangelogPath ==
  << <<"C", "H", "A", "N", "G", "E", "L", "O", "G", ".", "m", "d">> >>
\* The date of the run, datetime.now(timezone.utc).strftime("%Y-%m-%d").
date_str ==
  <<"2", "0", "2", "5", "-", "0", "1", "-", "0", "1">>
HeadingPrefix ==
  <<"#", "#", " ", "[">>
ChangelogPreamble ==
  <<"#", " ", "C", "h", "a", "n", "g", "e", "l", "o", "g", "\n", "\n", "A", "l", "l", " ",
    "n", "o", "t", "a", "b", "l", "e", " ", "c", "h", "a", "n", "g", "e", "s", " ", "t",
    "o", " ", "t", "h", "i", "s", " ", "p", "r", "o", "j", "e", "c", "t", " ", "w", "i",
    "l", "l", " ", "b", "e", " ", "d", "o", "c", "u", "m", "e", "n", "t", "e", "d", " ",
    "i", "n", " ", "t", "h", "i", "s", " ", "f", "i", "l", "e", ".", "\n", "\n">>
InitialRelease ==
  <<"\n", "\n", "-", " ", "I", "n", "i", "t", "i", "a", "l", " ", "r", "e", "l", "e", "a",
    "s", "e", ".", "\n">>
NoChanges ==
  <<"\n", "\n", "-", " ", "N", "o", " ", "c", "h", "a", "n", "g", "e", "s", " ", "d", "o",
    "c", "u", "m", "e", "n", "t", "e", "d", ".", "\n">>

\* f"## [{new_version.lstrip('v')}] - {date_str}"
ChangelogHeader(new_version) ==
  HeadingPrefix \o LStrip(new_version, "v") \o <<"]", " ", "-", " ">> \o date_str

\* list.insert(idx, item) with idx counted from 1.
InsertAt(lines, idx, item) ==
  SubSeq(lines, 1, idx - 1) \o <<item>> \o SubSeq(lines, idx, Len(lines))

\* An update that appends the new entry to an existing file wherever its version
\* headings are.
_update_changelog_appended(tree, new_version) ==
  LET header == ChangelogHeader(new_version)
  IN  IF ChangelogPath \notin DOMAIN tree
      THEN WriteFile(tree, ChangelogPath, ChangelogPreamble \o header \o InitialRelease)
      ELSE LET lines == SplitLines(tree[ChangelogPath].content)
               new_lines == lines \o << <<>>, header \o NoChanges >>
           IN  WriteFile(tree, ChangelogPath, Join(new_lines, <<"\n">>) \o <<"\n">>)

\* _update_changelog: create the file, or insert the new entry before the first
\* line starting with "## [" (followed by an empty line when the next line is not
\* blank), or append it after an empty line; the lines are written joined by "\n".
_update_changelog(tree, new_version) ==
  LET header == ChangelogHeader(new_version)
  IN  IF ChangelogPath \notin DOMAIN tree
      THEN WriteFile(tree, ChangelogPath, ChangelogPreamble \o header \o InitialRelease)
      ELSE LET lines == SplitLines(tree[ChangelogPath].content)
               headings == {i \in 1..Len(lines) : StartsWithAt(lines[i], 1, HeadingPrefix)}
               new_entry == header \o NoChanges
               new_lines ==
                 IF headings # {}
                 THEN LET insert_idx == CHOOSE i \in headings : \A k \in headings : i <= k
                          inserted == InsertAt(lines, insert_idx, new_entry)
                      IN  IF NotBlank(inserted[insert_idx + 1])
                          THEN InsertAt(inserted, insert_idx + 1, <<>>)
                          ELSE inserted
                 ELSE lines \o << <<>>, new_entry >>
           IN  WriteFile(tree, ChangelogPath, Join(new_lines, <<"\n">>) \o <<"\n">>)

\* update_files: agent.yaml, then CHANGELOG.md.
update_files(tree, new_version) == _update_changelog(_update_agent_yaml(tree, new_version), new_version)

\* ------------------------------------------------------------------ workspace files

\* evidence/assay_report.json, council_manifest.lock and CERTIFICATE.md.
EvidencePath ==
  << <<"e", "v", "i", "d", "e", "n", "c", "e">>, <<"a", "s", "s", "a", "y", "_", "r", "e", "p", "o", "r", "t", ".", "j", "s", "o", "n">> >>
ManifestPath ==
  << <<"c", "o", "u", "n", "c", "i", "l", "_", "m", "a", "n", "i", "f", "e", "s", "t", ".", "l",
  "o", "c", "k">> >>
CertificatePath ==
  << <<"C", "E", "R", "T", "I", "F", "I", "C", "A", "T", "E", ".", "m", "d">> >>
\* A file of the agent under release.
DataPath ==
  << <<"d", "a", "t", "a", ".", "t", "x", "t">> >>

\* An assay report is [council, results]: the serialised "council" object and the
\* serialised "results" object.  The report the assay service returns.
CouncilText ==
  <<"{", "\"", "j", "u", "d", "g", "e", "\"", ":", "\"", "j", "\"", "}">>
ResultsText ==
  <<"{", "\"", "p", "a", "s", "s", "\"", ":", "t", "r", "u", "e", ",", "\"", "s", "c", "o",
    "r", "e", "\"", ":", "1", "}">>
Reports == {[council |-> CouncilText, results |-> ResultsText]}

\* json.dump(assay_report, f): the serialisation of the report's keys.
json_dump(report) == <<"{">> \o report.council \o <<",">> \o report.results \o <<"}">>

\* The workspace after ArtifactBundler.bundle ran on a workspace without model
\* artifacts and without files above the thresholds: create_snapshot writes the
\* council object and a newline to council_manifest.lock, then the certificate is
\* rendered from the report.
create_snapshot(tree, report) == WriteFile(tree, ManifestPath, report.council \o <<"\n">>)
_generate_certificate(tree, report) ==
  WriteFile(tree, CertificatePath, report.council \o report.results \o <<"\n">>)
bundle(tree, report) == _generate_certificate(create_snapshot(tree, report), report)

\* A candidate branch named after the version without its "v".
CandidateBranch_clean(next_version) ==
  <<"c", "a", "n", "d", "i", "d", "a", "t", "e", "/">> \o LStrip(next_version, "v")

\* f"candidate/{next_version}" and the target branch.
CandidatePrefix ==
  <<"c", "a", "n", "d", "i", "d", "a", "t", "e", "/">>
MainBranch ==
  <<"m", "a", "i", "n">>
CandidateBranch(next_version) == CandidatePrefix \o next_version

\* ------------------------------------------------------------------ state

VARIABLES
  pc,              \* "idle", the step the running transition executes next, or "done"
  frame,           \* the arguments and local variables of the running (last) transition
  outcome,         \* NoOutcome, Running, Ok, or the exception that ended the transition
  calls,           \* the collaborator calls of the running (last) transition, in order
  workspace,       \* the directory tree at workspace_path
  repo,            \* the local git repository: [branch, heads, index]
  origin,          \* the remote's branches: branch name -> commit
  merge_requests,  \* the provider's merge requests, by iid
  tags,            \* the provider's tags, oldest first
  foundry,         \* the draft-review service: [drafts, approvals]
  release_state,   \* observer: per merge request, the release states it went through
  before,          \* observer: the external systems when the running transition started
  parked,          \* the transition of the server's other worker thread (ServerSpec)
  http,            \* one call of an HTTP client and its attempts (HttpSpec)
  signer,          \* what the ElectronicSigner computed for the tree on disk (SignerSpec)
  bundler,         \* one run of ArtifactBundler.bundle and its collaborators (BundlerSpec)
  git_lfs,         \* the calls of GitLFS.track_patterns and what they ran (TrackSpec)
  version_files,   \* the calls of VersionManager.update_files and the tree they began with
                   \* (FilesSpec)
  transitions,     \* how many transitions were started
  failures         \* how many calls failed for an outside reason

vars == <<pc, frame, outcome, calls, workspace, repo, origin, merge_requests, tags,
          foundry, release_state, before, parked, http, signer, bundler, git_lfs, version_files,
          transitions, failures>>

ProjectIds == {"proj-1"}
DraftIds == {"draft-1"}
UserIds == {"user-1"}
Reasons == {"reason"}

\* A signature that is the hash of no workspace.
BadSignature == <<"b", "a", "d">>

\* Tags the repository may carry before the first proposal: a release tag, and a
\* tag that is no version.
FirstTag == FormatVersion(1, 0, 0)
OddTag == <<"1", ".", "2">>

\* The content of DataPath in a clean checkout.
OriginalData == <<"0">>

InitialTree == [p \in {DataPath} |-> [kind |-> "file", content |-> OriginalData]]
InitialCommit == [tree |-> InitialTree, signature |-> None, signer_role |-> None]

EmptyFrame ==
  [op |-> "none", project_id |-> None, draft_id |-> None, bump_type |-> None,
   user_id |-> None, mr_id |-> 0, srb_signature |-> None, reason |-> None,
   assay_report |-> None, current_version |-> None, next_version |-> None,
   signature |-> None, commit_message |-> None, new_mr_id |-> 0]

\* How a transition stands: not started, running, returned normally (otherwise
\* outcome is the exception it raised).
NoOutcome == <<"none">>
Running == <<"running">>
Ok == <<"ok">>

\* What a thread holds of its transition; a thread that runs none holds IdleContext.
Context(l, f, o, c, b) == [pc |-> l, frame |-> f, outcome |-> o, calls |-> c, before |-> b]
IdleContext == Context("idle", EmptyFrame, NoOutcome, <<>>, <<>>)

\* No HTTP client call is under way; the signer has computed nothing.
NoCall ==
  [pc |-> "idle", method |-> None, attempt_number |-> 0, requests |-> <<>>, slept |-> <<>>,
   effects |-> 0, result |-> NoOutcome]
NoSigner ==
  [pc |-> "idle", tree |-> <<>>, user_id |-> None, signature |-> None, collected |-> <<>>,
   fingerprint |-> None, listed |-> <<>>, verified |-> None, mutations |-> 0]

\* track_patterns was not called yet.
NoTracking == <<>>

\* update_files was not called yet.
NoVersionFiles == [original |-> <<>>, versions |-> <<>>]

\* No bundle run is under way.
NoBundler ==
  [pc |-> "idle", config |-> [lfs_threshold_mb |-> 0, remote_storage_threshold_mb |-> 0],
   git_lfs |-> [installed |-> FALSE, initialized |-> FALSE, returned |-> <<>>],
   tree |-> <<>>, scan |-> {},
   pointers |-> {}, skipped |-> {}, failed |-> <<>>, post_offload |-> <<>>,
   large_files |-> {}, tracked |-> {}, calls |-> <<>>, result |-> NoOutcome]

\* After construction of the orchestrator on a clean checkout of main; the provider
\* has no tag yet or one tag, no merge request, and the draft is being edited.
Init ==
  /\ pc = "idle"
  /\ frame = EmptyFrame
  /\ outcome = NoOutcome
  /\ calls = <<>>
  /\ workspace = InitialTree
  /\ repo = [branch |-> MainBranch, heads |-> [b \in {MainBranch} |-> InitialCommit],
             index |-> InitialTree]
  /\ origin = [b \in {MainBranch} |-> InitialCommit]
  /\ merge_requests = <<>>
  /\ tags \in {<<>>, <<FirstTag>>, <<OddTag>>}
  /\ foundry = [drafts |-> [d \in DraftIds |-> "DRAFT"], approvals |-> {}]
  /\ release_state = <<>>
  /\ before = <<>>
  /\ parked = IdleContext
  /\ http = NoCall
  /\ signer = NoSigner
  /\ bundler = NoBundler
  /\ git_lfs = NoTracking
  /\ version_files = NoVersionFiles
  /\ transitions = 0
  /\ failures = 0

\* What the collaborators record of a call: its name, and whether it raised.
Called(call, raised) == [call |-> call, raised |-> raised]

\* The step returns: the call is logged and control moves on.
Goto(call, next) ==
  /\ pc' = next /\ calls' = Append(calls, Called(call, FALSE)) /\ outcome' = outcome
  /\ UNCHANGED <<before, parked, http, signer, bundler, git_lfs, version_files, failures>>

\* The step raises: the call is logged and the exception leaves the transition.
Raise(call, exception) ==
  /\ pc' = "done" /\ calls' = Append(calls, Called(call, TRUE)) /\ outcome' = exception
  /\ UNCHANGED <<before, parked, http, signer, bundler, git_lfs, version_files, failures>>

\* The step raises for a reason outside the program's state.
Fail(call, exception) ==
  /\ failures < MaxFailures
  /\ pc' = "done" /\ calls' = Append(calls, Called(call, TRUE)) /\ outcome' = exception
  /\ failures' = failures + 1 /\ before' = before /\ parked' = parked /\ UNCHANGED <<http, signer, bundler, git_lfs, version_files>>

\* The transition returns normally.
Return(call) ==
  /\ pc' = "done" /\ calls' = Append(calls, Called(call, FALSE)) /\ outcome' = Ok
  /\ UNCHANGED <<before, parked, http, signer, bundler, git_lfs, version_files, failures>>

Provider == <<origin, merge_requests, tags>>
Visible == <<origin, merge_requests, tags, foundry>>
External == <<origin, merge_requests, tags, foundry, release_state>>

\* ------------------------------------------------------------------ propose_release

propose_release ==
  /\ pc = "idle" /\ transitions < MaxTransitions
  /\ \E project_id \in ProjectIds, draft_id \in DraftIds, bump_type \in BumpType,
        user_id \in UserIds :
       frame' = [EmptyFrame EXCEPT !.op = "propose", !.project_id = project_id,
                                   !.draft_id = draft_id, !.bump_type = bump_type,
                                   !.user_id = user_id]
  /\ pc' = "get_latest_report" /\ calls' = <<>> /\ outcome' = Running
  /\ transitions' = transitions + 1 /\ before' = Visible
  /\ UNCHANGED <<workspace, repo, External, parked, http, signer, bundler, git_lfs, version_files, failures>>

\* assay_report = self.assay_client.get_latest_report(project_id)
propose_get_latest_report ==
  /\ pc = "get_latest_report"
  /\ \/ /\ \E report \in Reports : frame' = [frame EXCEPT !.assay_report = report]
        /\ Goto("get_latest_report", "write_evidence")
     \/ /\ Fail("get_latest_report", RuntimeError)
        /\ UNCHANGED frame
  /\ UNCHANGED <<workspace, repo, External, transitions>>

\* evidence_dir.mkdir(...); json.dump(assay_report, f, indent=2)
propose_write_evidence ==
  /\ pc = "write_evidence"
  /\ \/ /\ workspace' = WriteFile(workspace, EvidencePath, json_dump(frame.assay_report))
        /\ Goto("write_evidence", "get_current_version")
     \/ /\ Fail("write_evidence", OSError)
        /\ UNCHANGED workspace
  /\ UNCHANGED <<frame, repo, External, transitions>>

\* get_last_tag(): the provider's most recent tag, None without tags.
get_last_tag == IF tags = <<>> THEN None ELSE tags[Len(tags)]

\* current_version = self.version_manager.get_current_version(self.workspace_path)
propose_get_current_version ==
  /\ pc = "get_current_version"
  /\ \/ /\ frame' = [frame EXCEPT !.current_version = get_current_version(get_last_tag)]
        /\ Goto("get_current_version", "calculate_next_version")
     \/ /\ Fail("get_current_version", RuntimeError)
        /\ UNCHANGED frame
  /\ UNCHANGED <<workspace, repo, External, transitions>>

\* next_version = self.version_manager.calculate_next_version(current_version, bump_type)
propose_calculate_next_version ==
  /\ pc = "calculate_next_version"
  /\ LET next_version == calculate_next_version(frame.current_version, frame.bump_type)
     IN  \/ /\ next_version # ValueError
            /\ frame' = [frame EXCEPT !.next_version = next_version]
            /\ Goto("calculate_next_version", "checkout_new_branch")
         \/ /\ next_version = ValueError
            /\ Raise("calculate_next_version", ValueError)
            /\ UNCHANGED frame
  /\ UNCHANGED <<workspace, repo, External, transitions>>

\* The paths at which two trees differ (a file present in one only, or changed).
Differing(t1, t2) ==
  {p \in DOMAIN t1 \cup DOMAIN t2 :
     \/ p \notin DOMAIN t1 \/ p \notin DOMAIN t2
     \/ t1[p] # t2[p]}

\* git checkout of an existing branch keeps the local changes, and refuses when a
\* locally changed path differs between HEAD and the branch.
CheckoutConflict(tree, head, target) ==
  Differing(tree, head) \cap Differing(head, target) # {}
CheckoutTree(tree, head, target) ==
  LET dirty == Differing(tree, head)
  IN  [p \in (DOMAIN target \ dirty) \cup (DOMAIN tree \cap dirty) |->
         IF p \in dirty THEN tree[p] ELSE target[p]]

\* self.git_local.checkout_new_branch(candidate_branch): an existing head is checked
\* out, otherwise the head is created at the current commit and checked out.
propose_checkout_new_branch ==
  /\ pc = "checkout_new_branch"
  /\ LET branch_name == CandidateBranch(frame.next_version)
         head == repo.heads[repo.branch]
     IN  \/ /\ branch_name \in DOMAIN repo.heads
            /\ ~CheckoutConflict(workspace, head.tree, repo.heads[branch_name].tree)
            /\ workspace' = CheckoutTree(workspace, head.tree, repo.heads[branch_name].tree)
            /\ repo' = [repo EXCEPT !.branch = branch_name]
            /\ Goto("checkout_new_branch", "update_files")
         \/ /\ branch_name \notin DOMAIN repo.heads
            /\ repo' = [repo EXCEPT !.branch = branch_name,
                                    !.heads = [b \in DOMAIN repo.heads \cup {branch_name} |->
                                                 IF b = branch_name THEN head ELSE repo.heads[b]]]
            /\ workspace' = workspace
            /\ Goto("checkout_new_branch", "update_files")
         \/ /\ branch_name \in DOMAIN repo.heads
            /\ CheckoutConflict(workspace, head.tree, repo.heads[branch_name].tree)
            /\ Raise("checkout_new_branch", RuntimeError)
            /\ UNCHANGED <<workspace, repo>>
         \/ /\ Fail("checkout_new_branch", RuntimeError)
            /\ UNCHANGED <<workspace, repo>>
  /\ UNCHANGED <<frame, External, transitions>>

\* self.version_manager.update_files(self.workspace_path, next_version)
propose_update_files ==
  /\ pc = "update_files"
  /\ \/ /\ workspace' = update_files(workspace, frame.next_version)
        /\ Goto("update_files", "bundle")
     \/ /\ Fail("update_files", OSError)
        /\ UNCHANGED workspace
  /\ UNCHANGED <<frame, repo, External, transitions>>

\* self.artifact_bundler.bundle(self.workspace_path)
propose_bundle ==
  /\ pc = "bundle"
  /\ \/ /\ workspace' = bundle(workspace, frame.assay_report)
        /\ Goto("bundle", "create_signature")
     \/ /\ workspace' = create_snapshot(workspace, frame.assay_report)
        /\ Fail("bundle", RuntimeError)        \* the certificate cannot be rendered
     \/ /\ Fail("bundle", RuntimeError)        \* e.g. Git LFS is not installed
        /\ UNCHANGED workspace
  /\ UNCHANGED <<frame, repo, External, transitions>>

\* The audit trail format_commit_message embeds in the commit message.
format_commit_message(user_id, signature, signer_role) ==
  [signer_id |-> user_id, signer_role |-> signer_role, signature |-> signature]

\* signature = create_signature(workspace_path, sre_user_id);
\* commit_message = format_commit_message(..., signer_role="SRE")
propose_create_signature ==
  /\ pc = "create_signature"
  /\ \/ /\ LET signature == create_signature(workspace, frame.user_id)
           IN  frame' = [frame EXCEPT !.signature = signature,
                           !.commit_message = format_commit_message(frame.user_id, signature, "SRE")]
        /\ Goto("create_signature", "add_all")
     \/ /\ Fail("create_signature", RuntimeError)   \* a file cannot be read
        /\ UNCHANGED frame
  /\ UNCHANGED <<workspace, repo, External, transitions>>

\* self.git_local.add_all()
propose_add_all ==
  /\ pc = "add_all"
  /\ \/ /\ repo' = [repo EXCEPT !.index = workspace]
        /\ Goto("add_all", "commit")
     \/ /\ Fail("add_all", RuntimeError)
        /\ UNCHANGED repo
  /\ UNCHANGED <<frame, workspace, External, transitions>>

\* self.git_local.commit(commit_message): the index becomes the branch's commit.
propose_commit ==
  /\ pc = "commit"
  /\ \/ /\ repo' = [repo EXCEPT !.heads[repo.branch] =
                      [tree |-> repo.index, signature |-> frame.commit_message.signature,
                       signer_role |-> frame.commit_message.signer_role]]
        /\ Goto("commit", "verify_ready")
     \/ /\ Fail("commit", RuntimeError)
        /\ UNCHANGED repo
  /\ UNCHANGED <<frame, workspace, External, transitions>>

\* The readiness check with its failure ignored: the transition goes on to the push.
propose_verify_ready_ignored ==
  /\ pc = "verify_ready"
  /\ \/ Goto("verify_ready", "push")
     \/ /\ failures < MaxFailures
        /\ pc' = "push" /\ calls' = Append(calls, Called("verify_ready", TRUE))
        /\ outcome' = outcome /\ failures' = failures + 1 /\ before' = before /\ parked' = parked /\ UNCHANGED <<http, signer, bundler, git_lfs, version_files>>
  /\ UNCHANGED <<frame, workspace, repo, External, transitions>>

\* self.git_lfs.verify_ready(self.workspace_path)
propose_verify_ready ==
  /\ pc = "verify_ready"
  /\ \/ Goto("verify_ready", "push")
     \/ Fail("verify_ready", RuntimeError)
  /\ UNCHANGED <<frame, workspace, repo, External, transitions>>

\* self.git_local.push(candidate_branch)
propose_push ==
  /\ pc = "push"
  /\ LET branch_name == CandidateBranch(frame.next_version)
     IN  \/ /\ origin' = [b \in DOMAIN origin \cup {branch_name} |->
                            IF b = branch_name THEN repo.heads[branch_name] ELSE origin[b]]
            /\ Goto("push", "create_merge_request")
         \/ /\ Fail("push", RuntimeError)
            /\ UNCHANGED origin
  /\ UNCHANGED <<frame, workspace, repo, merge_requests, tags, foundry, release_state,
                 transitions>>

\* The provider has an open merge request from the branch (GitLab refuses a second).
HasOpenMergeRequest(source_branch) ==
  \E i \in 1..Len(merge_requests) :
    merge_requests[i].source_branch = source_branch /\ merge_requests[i].state = "opened"

\* Creating the merge request with its failure ignored: the transition goes on to
\* notify the draft-review service.
propose_create_merge_request_ignored ==
  /\ pc = "create_merge_request"
  /\ LET branch_name == CandidateBranch(frame.next_version)
     IN  \/ /\ ~HasOpenMergeRequest(branch_name)
            /\ merge_requests' = Append(merge_requests,
                 [source_branch |-> branch_name, target_branch |-> MainBranch,
                  signature |-> frame.signature, state |-> "opened", notes |-> <<>>])
            /\ release_state' = Append(release_state, <<"Proposed">>)
            /\ frame' = [frame EXCEPT !.new_mr_id = Len(merge_requests) + 1]
            /\ Goto("create_merge_request", "submit_for_review")
         \/ /\ failures < MaxFailures
            /\ pc' = "submit_for_review"
            /\ calls' = Append(calls, Called("create_merge_request", TRUE))
            /\ outcome' = outcome /\ failures' = failures + 1 /\ before' = before /\ parked' = parked /\ UNCHANGED <<http, signer, bundler, git_lfs, version_files>>
            /\ UNCHANGED <<merge_requests, release_state, frame>>
  /\ UNCHANGED <<workspace, repo, origin, tags, foundry, transitions>>

\* mr_id = self.git_provider.create_merge_request(source_branch=candidate_branch,
\*            target_branch="main", title=..., description=f"...Signature: {signature}...")
propose_create_merge_request ==
  /\ pc = "create_merge_request"
  /\ LET branch_name == CandidateBranch(frame.next_version)
     IN  \/ /\ ~HasOpenMergeRequest(branch_name)
            /\ merge_requests' = Append(merge_requests,
                 [source_branch |-> branch_name, target_branch |-> MainBranch,
                  signature |-> frame.signature, state |-> "opened", notes |-> <<>>])
            /\ release_state' = Append(release_state, <<"Proposed">>)
            /\ frame' = [frame EXCEPT !.new_mr_id = Len(merge_requests) + 1]
            /\ Goto("create_merge_request", "submit_for_review")
         \/ /\ HasOpenMergeRequest(branch_name)
            /\ Raise("create_merge_request", RuntimeError)
            /\ UNCHANGED <<merge_requests, release_state, frame>>
         \/ /\ Fail("create_merge_request", RuntimeError)
            /\ UNCHANGED <<merge_requests, release_state, frame>>
  /\ UNCHANGED <<workspace, repo, origin, tags, foundry, transitions>>

\* The submission with its failure ignored: the transition goes on to the comment.
propose_submit_for_review_ignored ==
  /\ pc = "submit_for_review"
  /\ \/ /\ foundry' = [foundry EXCEPT !.drafts[frame.draft_id] = "PENDING_SRB"]
        /\ Goto("submit_for_review", "propose_post_comment")
     \/ /\ failures < MaxFailures
        /\ pc' = "propose_post_comment"
        /\ calls' = Append(calls, Called("submit_for_review", TRUE))
        /\ outcome' = outcome /\ failures' = failures + 1 /\ before' = before /\ parked' = parked /\ UNCHANGED <<http, signer, bundler, git_lfs, version_files>>
        /\ UNCHANGED foundry
  /\ UNCHANGED <<frame, workspace, repo, Provider, release_state, transitions>>

\* self.foundry_client.submit_for_review(foundry_draft_id, type="release")
propose_submit_for_review ==
  /\ pc = "submit_for_review"
  /\ \/ /\ foundry' = [foundry EXCEPT !.drafts[frame.draft_id] = "PENDING_SRB"]
        /\ Goto("submit_for_review", "propose_post_comment")
     \/ /\ Fail("submit_for_review", RuntimeError)
        /\ UNCHANGED foundry
  /\ UNCHANGED <<frame, workspace, repo, Provider, release_state, transitions>>

\* The merge request exists at the provider.
MergeRequestExists(mr_id) == mr_id \in 1..Len(merge_requests)

\* self.git_provider.post_comment(mr_id, f"Linked Foundry Draft: {foundry_draft_id}")
propose_post_comment ==
  /\ pc = "propose_post_comment"
  /\ \/ /\ MergeRequestExists(frame.new_mr_id)
        /\ merge_requests' = [merge_requests EXCEPT ![frame.new_mr_id].notes =
                                Append(@, "Linked Foundry Draft")]
        /\ Return("post_comment")
     \/ /\ Fail("post_comment", RuntimeError)
        /\ UNCHANGED merge_requests
  /\ UNCHANGED <<frame, workspace, repo, origin, tags, foundry, release_state, transitions>>

\* ------------------------------------------------------------------ finalize_release

\* The merge request ids and signatures a caller may pass.
MergeRequestIds == 1..(Len(merge_requests) + 1)
Signatures ==
  {calculate_bundle_hash(workspace), BadSignature}
    \cup {merge_requests[i].signature : i \in 1..Len(merge_requests)}

finalize_release ==
  /\ pc = "idle" /\ transitions < MaxTransitions
  /\ \E mr_id \in MergeRequestIds, srb_signature \in Signatures :
       frame' = [EmptyFrame EXCEPT !.op = "finalize", !.mr_id = mr_id,
                                   !.srb_signature = srb_signature]
  /\ pc' = "verify_signature" /\ calls' = <<>> /\ outcome' = Running
  /\ transitions' = transitions + 1 /\ before' = Visible
  /\ UNCHANGED <<workspace, repo, External, parked, http, signer, bundler, git_lfs, version_files, failures>>

\* if not self.electronic_signer.verify_signature(self.workspace_path, srb_signature):
\*     raise ValueError("Signature verification failed. ...")
finalize_verify_signature ==
  /\ pc = "verify_signature"
  /\ \/ /\ verify_signature(workspace, frame.srb_signature)
        /\ Goto("verify_signature", "finalize_get_current_version")
     \/ /\ ~verify_signature(workspace, frame.srb_signature)
        /\ Raise("verify_signature", ValueError)
     \/ Fail("verify_signature", RuntimeError)    \* a file cannot be read
  /\ UNCHANGED <<frame, workspace, repo, External, transitions>>

\* current_version = self.version_manager.get_current_version(self.workspace_path)
\* if not current_version: raise RuntimeError("Could not determine version ...")
finalize_get_current_version ==
  /\ pc = "finalize_get_current_version"
  /\ \/ /\ get_current_version(get_last_tag) # None
        /\ frame' = [frame EXCEPT !.current_version = get_current_version(get_last_tag)]
        /\ Goto("get_current_version", "merge_merge_request")
     \/ /\ get_current_version(get_last_tag) = None
        /\ Raise("get_current_version", RuntimeError)
        /\ UNCHANGED frame
     \/ /\ Fail("get_current_version", RuntimeError)    \* the tag lookup fails
        /\ UNCHANGED frame
  /\ UNCHANGED <<workspace, repo, External, transitions>>

\* The merge with its failure ignored: the transition goes on to tag main.
finalize_merge_merge_request_ignored ==
  /\ pc = "merge_merge_request"
  /\ \/ /\ MergeRequestExists(frame.mr_id)
        /\ merge_requests[frame.mr_id].state = "opened"
        /\ merge_requests' = [merge_requests EXCEPT ![frame.mr_id].state = "merged"]
        /\ origin' = [origin EXCEPT ![MainBranch] =
                        origin[merge_requests[frame.mr_id].source_branch]]
        /\ release_state' = [release_state EXCEPT ![frame.mr_id] = Append(@, "Finalized")]
        /\ Goto("merge_merge_request", "create_tag")
     \/ /\ ~(MergeRequestExists(frame.mr_id) /\ merge_requests[frame.mr_id].state = "opened")
        /\ pc' = "create_tag" /\ calls' = Append(calls, Called("merge_merge_request", TRUE))
        /\ outcome' = outcome
        /\ UNCHANGED <<merge_requests, origin, release_state, before, parked, http, signer, bundler, git_lfs, version_files, failures>>
  /\ UNCHANGED <<frame, workspace, repo, tags, foundry, transitions>>

\* self.git_provider.merge_merge_request(mr_id): the provider merges an open merge
\* request (GitlabGetError and GitlabMRClosedError become RuntimeError).
finalize_merge_merge_request ==
  /\ pc = "merge_merge_request"
  /\ \/ /\ MergeRequestExists(frame.mr_id)
        /\ merge_requests[frame.mr_id].state = "opened"
        /\ merge_requests' = [merge_requests EXCEPT ![frame.mr_id].state = "merged"]
        /\ origin' = [origin EXCEPT ![MainBranch] =
                        origin[merge_requests[frame.mr_id].source_branch]]
        /\ release_state' = [release_state EXCEPT ![frame.mr_id] = Append(@, "Finalized")]
        /\ Goto("merge_merge_request", "create_tag")
     \/ /\ ~(MergeRequestExists(frame.mr_id) /\ merge_requests[frame.mr_id].state = "opened")
        /\ Raise("merge_merge_request", RuntimeError)
        /\ UNCHANGED <<merge_requests, origin, release_state>>
     \/ /\ Fail("merge_merge_request", RuntimeError)
        /\ UNCHANGED <<merge_requests, origin, release_state>>
  /\ UNCHANGED <<frame, workspace, repo, tags, foundry, transitions>>

\* self.git_provider.create_tag(tag_name=current_version, ref="main", message=...)
finalize_create_tag ==
  /\ pc = "create_tag"
  /\ \/ /\ tags' = Append(tags, frame.current_version)
        /\ Goto("create_tag", "approve_release")
     \/ /\ Fail("create_tag", RuntimeError)
        /\ UNCHANGED tags
  /\ UNCHANGED <<frame, workspace, repo, origin, merge_requests, foundry, release_state,
                 transitions>>

\* self.foundry_client.approve_release(mr_id, srb_signature)
finalize_approve_release ==
  /\ pc = "approve_release"
  /\ \/ /\ foundry' = [foundry EXCEPT !.approvals = @ \cup {<<frame.mr_id, frame.srb_signature>>}]
        /\ Return("approve_release")
     \/ /\ Fail("approve_release", RuntimeError)
        /\ UNCHANGED foundry
  /\ UNCHANGED <<frame, workspace, repo, Provider, release_state, transitions>>

\* ------------------------------------------------------------------ reject_release

reject_release ==
  /\ pc = "idle" /\ transitions < MaxTransitions
  /\ \E mr_id \in MergeRequestIds, draft_id \in DraftIds, reason \in Reasons :
       frame' = [EmptyFrame EXCEPT !.op = "reject", !.mr_id = mr_id,
                                   !.draft_id = draft_id, !.reason = reason]
  /\ pc' = "reject_post_comment" /\ calls' = <<>> /\ outcome' = Running
  /\ transitions' = transitions + 1 /\ before' = Visible
  /\ UNCHANGED <<workspace, repo, External, parked, http, signer, bundler, git_lfs, version_files, failures>>

\* Posting the rejection comment with its failure ignored: the transition goes on
\* to unlock the draft.
reject_post_comment_ignored ==
  /\ pc = "reject_post_comment"
  /\ \/ /\ MergeRequestExists(frame.mr_id)
        /\ merge_requests' = [merge_requests EXCEPT ![frame.mr_id].notes =
                                Append(@, "Changes Requested")]
        /\ Goto("post_comment", "reject_release")
     \/ /\ ~MergeRequestExists(frame.mr_id)
        /\ pc' = "reject_release" /\ calls' = Append(calls, Called("post_comment", TRUE))
        /\ outcome' = outcome
        /\ UNCHANGED <<merge_requests, before, parked, http, signer, bundler, git_lfs, version_files, failures>>
  /\ UNCHANGED <<frame, workspace, repo, origin, tags, foundry, release_state, transitions>>

\* self.git_provider.post_comment(mr_id, f"Changes Requested: {reason}")
reject_post_comment ==
  /\ pc = "reject_post_comment"
  /\ \/ /\ MergeRequestExists(frame.mr_id)
        /\ merge_requests' = [merge_requests EXCEPT ![frame.mr_id].notes =
                                Append(@, "Changes Requested")]
        /\ Goto("post_comment", "reject_release")
     \/ /\ ~MergeRequestExists(frame.mr_id)
        /\ Raise("post_comment", RuntimeError)
        /\ UNCHANGED merge_requests
     \/ /\ Fail("post_comment", RuntimeError)
        /\ UNCHANGED merge_requests
  /\ UNCHANGED <<frame, workspace, repo, origin, tags, foundry, release_state, transitions>>

\* Unlocking the draft with one retry by the orchestrator when the call fails.
reject_reject_release_retried ==
  /\ pc = "reject_release"
  /\ \/ /\ foundry' = [foundry EXCEPT !.drafts[frame.draft_id] = "DRAFT"]
        /\ release_state' = [release_state EXCEPT ![frame.mr_id] = Append(@, "Rejected")]
        /\ Return("reject_release")
     \/ /\ failures < MaxFailures
        /\ pc' = "done"
        /\ calls' = calls \o <<Called("reject_release", TRUE), Called("reject_release", TRUE)>>
        /\ outcome' = RuntimeError /\ failures' = failures + 1 /\ before' = before /\ parked' = parked /\ UNCHANGED <<http, signer, bundler, git_lfs, version_files>>
        /\ UNCHANGED <<foundry, release_state>>
  /\ UNCHANGED <<frame, workspace, repo, Provider, transitions>>

\* self.foundry_client.reject_release(draft_id, reason): the draft is unlocked.
reject_reject_release ==
  /\ pc = "reject_release"
  /\ \/ /\ foundry' = [foundry EXCEPT !.drafts[frame.draft_id] = "DRAFT"]
        /\ release_state' = [release_state EXCEPT ![frame.mr_id] = Append(@, "Rejected")]
        /\ Return("reject_release")
     \/ /\ Fail("reject_release", RuntimeError)
        /\ UNCHANGED <<foundry, release_state>>
  /\ UNCHANGED <<frame, workspace, repo, Provider, transitions>>

\* ------------------------------------------------------------------ step order

\* The collaborator calls of each transition in the order of the source.
ProposeCalls ==
  <<"get_latest_report", "write_evidence", "get_current_version", "calculate_next_version",
    "checkout_new_branch", "update_files", "bundle", "create_signature", "add_all", "commit",
    "verify_ready", "push", "create_merge_request", "submit_for_review", "post_comment">>
FinalizeCalls ==
  <<"verify_signature", "get_current_version", "merge_merge_request", "create_tag",
    "approve_release">>
RejectCalls == <<"post_comment", "reject_release">>
CallsOf(op) ==
  IF op = "propose" THEN ProposeCalls ELSE IF op = "finalize" THEN FinalizeCalls ELSE RejectCalls

\* ------------------------------------------------------------------ the caller

\* The caller (the CLI command or the HTTP endpoint) has received the result or the
\* exception; the transition's frame is gone and the next request can be made.
caller_returns ==
  /\ pc = "done"
  /\ pc' = "idle" /\ frame' = EmptyFrame /\ calls' = <<>> /\ outcome' = NoOutcome
  /\ before' = <<>>
  /\ UNCHANGED <<workspace, repo, External, parked, http, signer, bundler, git_lfs, version_files, transitions, failures>>

\* ------------------------------------------------------------------ specification

Next ==
  \/ propose_release
  \/ propose_get_latest_report
  \/ propose_write_evidence
  \/ propose_get_current_version
  \/ propose_calculate_next_version
  \/ propose_checkout_new_branch
  \/ propose_update_files
  \/ propose_bundle
  \/ propose_create_signature
  \/ propose_add_all
  \/ propose_commit
  \/ propose_verify_ready
  \/ propose_push
  \/ propose_create_merge_request
  \/ propose_submit_for_review
  \/ propose_post_comment
  \/ finalize_release
  \/ finalize_verify_signature
  \/ finalize_get_current_version
  \/ finalize_merge_merge_request
  \/ finalize_create_tag
  \/ finalize_approve_release
  \/ reject_release
  \/ reject_post_comment
  \/ reject_reject_release
  \/ caller_returns

Spec == Init /\ [][Next]_vars

\* ------------------------------------------------------------------ version strings

\* The numbers the fields of a well-formed version are drawn from.
VersionNumbers == {0, 1, 9, 10}

\* M.m.p
Dotted(major, minor, patch) ==
  IntStr(major) \o <<".">> \o IntStr(minor) \o <<".">> \o IntStr(patch)

WellFormedVersions ==
  {prefix \o Dotted(major, minor, patch) :
     prefix \in {<<>>, <<"v">>},
     major \in VersionNumbers, minor \in VersionNumbers, patch \in VersionNumbers}

\* Other strings a tag may be: "abc", "1.2", "1", "v1.0.0-beta", "v1.0.a", "v",
\* "1.2.3.4", "1..3", "vv1.0.0", "1.-2.3", "v1.+2.3", "1. 2.3", "1_0.2.3", "v-1.0.0",
\* "v1.2.3v", "1.2._3".
OddVersions ==
  {<<"a", "b", "c">>, <<"1", ".", "2">>, <<"1">>,
   <<"v", "1", ".", "0", ".", "0", "-", "b", "e", "t", "a">>,
   <<"v", "1", ".", "0", ".", "a">>, <<"v">>,
   <<"1", ".", "2", ".", "3", ".", "4">>, <<"1", ".", ".", "3">>,
   <<"v", "v", "1", ".", "0", ".", "0">>, <<"1", ".", "-", "2", ".", "3">>,
   <<"v", "1", ".", "+", "2", ".", "3">>, <<"1", ".", " ", "2", ".", "3">>,
   <<"1", "_", "0", ".", "2", ".", "3">>, <<"v", "-", "1", ".", "0", ".", "0">>,
   <<"v", "1", ".", "2", ".", "3", "v">>, <<"1", ".", "2", ".", "_", "3">>}

VersionInputs == {None, <<>>} \cup WellFormedVersions \cup OddVersions

\* The orchestrator about to call calculate_next_version on a current version.
VersionInit ==
  /\ pc = "calculate_next_version"
  /\ \E current_version \in VersionInputs, bump_type \in BumpType :
       frame = [EmptyFrame EXCEPT !.op = "propose", !.current_version = current_version,
                                  !.bump_type = bump_type]
  /\ outcome = Running
  /\ calls = <<>>
  /\ workspace = InitialTree
  /\ repo = [branch |-> MainBranch, heads |-> [b \in {MainBranch} |-> InitialCommit],
             index |-> InitialTree]
  /\ origin = [b \in {MainBranch} |-> InitialCommit]
  /\ merge_requests = <<>>
  /\ tags = <<>>
  /\ foundry = [drafts |-> [d \in DraftIds |-> "DRAFT"], approvals |-> {}]
  /\ release_state = <<>>
  /\ before = <<>>
  /\ parked = IdleContext
  /\ http = NoCall
  /\ signer = NoSigner
  /\ bundler = NoBundler
  /\ git_lfs = NoTracking
  /\ version_files = NoVersionFiles
  /\ transitions = 0
  /\ failures = 0

VersionNext == propose_calculate_next_version

VersionSpec == VersionInit /\ [][VersionNext]_vars

\* ------------------------------------------------------------------ the HTTP server

TypeError == <<"TypeError">>

\* POST /release: the endpoint calls finalize_release with the keyword srb_user_id,
\* which the method does not take; the call raises before the method's first
\* statement and the endpoint answers 500.
release_release ==
  /\ pc = "idle"
  /\ transitions < MaxTransitions
  /\ \E mr_id \in MergeRequestIds, srb_signature \in Signatures :
       frame' = [EmptyFrame EXCEPT !.op = "release", !.mr_id = mr_id,
                                   !.srb_signature = srb_signature]
  /\ pc' = "done" /\ calls' = <<>> /\ outcome' = TypeError
  /\ transitions' = transitions + 1 /\ before' = Visible
  /\ UNCHANGED <<workspace, repo, External, parked, http, signer, bundler, git_lfs, version_files, failures>>

\* The endpoints are plain functions, which the server runs on worker threads, and
\* every request takes the one orchestrator of the application state: the thread
\* that was running is suspended between two steps and the other one runs.
switch ==
  /\ parked' = Context(pc, frame, outcome, calls, before)
  /\ pc' = parked.pc /\ frame' = parked.frame /\ outcome' = parked.outcome
  /\ calls' = parked.calls /\ before' = parked.before
  /\ UNCHANGED <<workspace, repo, External, http, signer, bundler, git_lfs, version_files, transitions, failures>>

\* The server after its lifespan has built the orchestrator: one tag on the
\* provider, both worker threads waiting for a request.
ServerInit ==
  /\ pc = "idle"
  /\ frame = EmptyFrame
  /\ outcome = NoOutcome
  /\ calls = <<>>
  /\ workspace = InitialTree
  /\ repo = [branch |-> MainBranch, heads |-> [b \in {MainBranch} |-> InitialCommit],
             index |-> InitialTree]
  /\ origin = [b \in {MainBranch} |-> InitialCommit]
  /\ merge_requests = <<>>
  /\ tags = <<FirstTag>>
  /\ foundry = [drafts |-> [d \in DraftIds |-> "DRAFT"], approvals |-> {}]
  /\ release_state = <<>>
  /\ before = <<>>
  /\ parked = IdleContext
  /\ http = NoCall
  /\ signer = NoSigner
  /\ bundler = NoBundler
  /\ git_lfs = NoTracking
  /\ version_files = NoVersionFiles
  /\ transitions = MaxTransitions - MaxRequests
  /\ failures = 0

ServerNext ==
  \/ propose_release
  \/ propose_get_latest_report
  \/ propose_write_evidence
  \/ propose_get_current_version
  \/ propose_calculate_next_version
  \/ propose_checkout_new_branch
  \/ propose_update_files
  \/ propose_bundle
  \/ propose_create_signature
  \/ propose_add_all
  \/ propose_commit
  \/ propose_verify_ready
  \/ propose_push
  \/ propose_create_merge_request
  \/ propose_submit_for_review
  \/ propose_post_comment
  \/ release_release
  \/ reject_release
  \/ reject_post_comment
  \/ reject_reject_release
  \/ caller_returns
  \/ switch

ServerSpec == ServerInit /\ [][ServerNext]_vars

\* ------------------------------------------------------------------ HTTP clients

HTTPStatusError == <<"HTTPStatusError">>
RequestError == <<"RequestError">>
TimeoutException == <<"TimeoutException">>

\* The client methods the orchestrator calls: HttpAssayClient.get_latest_report and
\* HttpFoundryClient.submit_for_review, approve_release, reject_release.
HttpMethods == {"get_latest_report", "submit_for_review", "approve_release", "reject_release"}

\* What comes back for one request: a response with a status code and a body (a JSON
\* object, another JSON value, or no JSON), or an error of the transport.
StatusCodes == {200, 204, 400, 404, 499, 500, 503}
Bodies == {"dict", "list", "invalid"}
Replies ==
  [status_code : StatusCodes, body : Bodies]
    \cup {[error |-> RequestError], [error |-> TimeoutException]}

IsResponse(reply) == "status_code" \in DOMAIN reply

\* response.raise_for_status() raises HTTPStatusError for a 4xx or 5xx status
raise_for_status(status_code) == 400 <= status_code /\ status_code <= 599

\* A handler that lets every status error through as it is (no status is taken for
\* a client error).
_handle_http_error_reraised(status_code) == HTTPStatusError

\* _handle_http_error: a client error becomes a RuntimeError, any other status
\* error is raised again.
_handle_http_error(status_code) ==
  IF 400 <= status_code /\ status_code < 500 THEN RuntimeError ELSE HTTPStatusError

\* _post, the body of submit_for_review, approve_release and reject_release: what one
\* run returns (Ok) or raises.
_post(reply) ==
  IF ~IsResponse(reply) THEN reply.error
  ELSE IF raise_for_status(reply.status_code) THEN _handle_http_error(reply.status_code)
  ELSE Ok

\* One run of the body of get_latest_report.
get_latest_report_body(reply) ==
  IF ~IsResponse(reply) THEN reply.error
  ELSE IF raise_for_status(reply.status_code)
       THEN IF 400 <= reply.status_code /\ reply.status_code < 500
            THEN RuntimeError ELSE HTTPStatusError
  ELSE IF reply.body # "dict" THEN RuntimeError
  ELSE Ok

MethodBody(method, reply) ==
  IF method = "get_latest_report" THEN get_latest_report_body(reply) ELSE _post(reply)

\* retry=retry_if_exception_type((RequestError, TimeoutException, HTTPStatusError))
retry_if_exception_type(result) == result \in {RequestError, TimeoutException, HTTPStatusError}

\* A stop condition that allows one attempt more.
stop_after_attempt_late(attempt_number) == attempt_number >= 4

\* stop=stop_after_attempt(3)
stop_after_attempt(attempt_number) == attempt_number >= 3

\* wait=wait_exponential(multiplier=1, min=2, max=10): the seconds slept after the
\* attempt of the given number.
wait_exponential(attempt_number) ==
  LET exp == 2 ^ (attempt_number - 1)
      result == 1 * exp
      least == IF result < 10 THEN result ELSE 10
  IN  IF least > 2 THEN least ELSE 2

\* The orchestrator calls a client method: the first attempt is due.
http_call ==
  /\ http.pc = "idle"
  /\ \E method \in HttpMethods :
       http' = [pc |-> "attempt", method |-> method, attempt_number |-> 1,
                requests |-> <<>>, slept |-> <<>>, effects |-> 0, result |-> Running]
  /\ UNCHANGED <<pc, frame, outcome, calls, workspace, repo, External, before, parked,
                 signer, bundler, git_lfs, version_files, transitions, failures>>

\* client.post(url, json=payload, headers=headers, timeout=30.0), seen from the
\* service: a request answered with a success status was carried out, one answered
\* with an error status was not, and when the transport fails (no connection, or no
\* response within the timeout) the request was carried out or never arrived.
Processed(reply) ==
  IF IsResponse(reply) THEN {~raise_for_status(reply.status_code)} ELSE BOOLEAN

\* One attempt: the request is sent, the method body runs on the reply, and the
\* retry decorator decides: a returned value or an exception outside the retried
\* types ends the call, a retried exception ends it (reraise=True) once the stop
\* condition holds, and otherwise the call sleeps.
http_attempt ==
  /\ http.pc = "attempt"
  /\ \E reply \in Replies :
     \E processed \in Processed(reply) :
       LET result == MethodBody(http.method, reply)
           requests == Append(http.requests, reply)
           effects == http.effects + (IF processed THEN 1 ELSE 0)
       IN  IF retry_if_exception_type(result) /\ ~stop_after_attempt(http.attempt_number)
           THEN http' = [http EXCEPT !.pc = "wait", !.requests = requests,
                                     !.effects = effects]
           ELSE http' = [http EXCEPT !.pc = "done", !.requests = requests,
                                     !.effects = effects, !.result = result]
  /\ UNCHANGED <<pc, frame, outcome, calls, workspace, repo, External, before, parked,
                 signer, bundler, git_lfs, version_files, transitions, failures>>

\* The sleep between two attempts is over.
http_wait ==
  /\ http.pc = "wait"
  /\ http' = [http EXCEPT !.pc = "attempt",
                          !.slept = Append(@, wait_exponential(http.attempt_number)),
                          !.attempt_number = @ + 1]
  /\ UNCHANGED <<pc, frame, outcome, calls, workspace, repo, External, before, parked,
                 signer, bundler, git_lfs, version_files, transitions, failures>>

\* The orchestrator has the value or the exception of the call.
http_returns ==
  /\ http.pc = "done"
  /\ http' = NoCall
  /\ UNCHANGED <<pc, frame, outcome, calls, workspace, repo, External, before, parked,
                 signer, bundler, git_lfs, version_files, transitions, failures>>

HttpNext ==
  \/ http_call
  \/ http_attempt
  \/ http_wait
  \/ http_returns

\* Every request has timeout=30.0 and every sleep is at most 10 seconds, so an
\* attempt that is due is made and a sleep that has begun ends.
HttpSpec ==
  Init /\ [][HttpNext]_vars /\ WF_vars(http_attempt) /\ WF_vars(http_wait)

\* ------------------------------------------------------------------ signed trees

\* The entries a tree on disk is made of: two regular files at the root, files in
\* version-control metadata directories at the root and below it, a symlink and an
\* empty directory.
FileA == <<<<"a">>>>
FileB == <<<<"b">>>>
GitFiles == {<<DotGit, <<"a">>>>, <<<<"d">>, DotGit, <<"a">>>>}
Symlink == <<<<"l">>>>
EmptyDir == <<<<"e">>>>

SignerContents == {<<>>, <<"b">>, <<"x">>}
SymlinkTargets == {<<"a">>, <<"n", "o">>}

SignerTrees ==
  {[p \in {FileA, FileB} |->
      [kind |-> "file", content |-> IF p = FileA THEN ca ELSE cb]] :
     ca \in SignerContents, cb \in SignerContents}

\* File names of more than one character, and a tree of two empty files so named.
FileAb == <<<<"a", "b">>>>
FileAba == <<<<"a", "b", "a">>>>
FileBa == <<<<"b", "a">>>>
FileC == <<<<"c">>>>
RenameTargets == {FileAb, FileAba, FileBa, FileC}
NamedTrees == {[p \in {FileAb, FileAba} |-> [kind |-> "file", content |-> <<>>]]}

\* The proposer and the reviewer.
SignerUserIds == {"sre-1", "srb-1"}

\* The tree with an entry of the given kind at path p.
WriteEntry(tree, p, kind, content) ==
  [q \in DOMAIN tree \cup {p} |->
     IF q = p THEN [kind |-> kind, content |-> content] ELSE tree[q]]

\* The tree without the entry at path p.
RemoveEntry(tree, p) == [q \in DOMAIN tree \ {p} |-> tree[q]]

\* A change of the tree after signing: the result of the last verification is stale.
Mutated(tree) ==
  /\ signer.pc \in {"signed", "verified"}
  /\ signer.mutations < MaxMutations
  /\ workspace' = tree
  /\ signer' = [signer EXCEPT !.pc = "signed", !.fingerprint = None, !.listed = <<>>,
                              !.verified = None, !.mutations = @ + 1]
  /\ UNCHANGED <<pc, frame, outcome, calls, repo, External, before, parked, http,
                 bundler, git_lfs, version_files, transitions, failures>>

\* signature = signer.create_signature(root, user_id)
signer_create_signature ==
  /\ signer.pc = "idle"
  /\ \E user_id \in SignerUserIds, listing \in rglob(workspace) :
       signer' = [signer EXCEPT !.pc = "signed", !.tree = workspace, !.user_id = user_id,
                    !.signature = create_signature_listed(workspace, user_id, listing),
                    !.collected = collect_files_to_hash(workspace, listing)]
  /\ UNCHANGED <<pc, frame, outcome, calls, workspace, repo, External, before, parked, http,
                 bundler, git_lfs, version_files, transitions, failures>>

\* signer.verify_signature(root, signature)
signer_verify_signature ==
  /\ signer.pc \in {"signed", "verified"}
  /\ \E listing \in rglob(workspace) :
       LET current_hash == calculate_bundle_hash_listed(workspace, listing)
       IN  signer' = [signer EXCEPT !.pc = "verified", !.fingerprint = current_hash,
                        !.listed = collect_files_to_hash(workspace, listing),
                        !.verified = (current_hash = signer.signature)]
  /\ UNCHANGED <<pc, frame, outcome, calls, workspace, repo, External, before, parked, http,
                 bundler, git_lfs, version_files, transitions, failures>>

\* The content of a hashed file is overwritten with another content.
mutate_content ==
  \E p \in {FileA, FileB}, content \in SignerContents :
    /\ p \in DOMAIN workspace /\ workspace[p].content # content
    /\ Mutated(WriteEntry(workspace, p, "file", content))

\* A hashed file is renamed; its content stays.
rename_file ==
  \E p \in files_to_hash(workspace), q \in RenameTargets \ DOMAIN workspace :
    Mutated(WriteEntry(RemoveEntry(workspace, p), q, "file", workspace[p].content))

\* A file inside a .git directory is added, overwritten or removed.
change_git_file ==
  \E p \in GitFiles :
    \/ \E content \in SignerContents :
         /\ p \in DOMAIN workspace => workspace[p].content # content
         /\ Mutated(WriteEntry(workspace, p, "file", content))
    \/ /\ p \in DOMAIN workspace
       /\ Mutated(RemoveEntry(workspace, p))

\* A symlink is added, retargeted or removed.
change_symlink ==
  \/ \E target \in SymlinkTargets :
       /\ Symlink \in DOMAIN workspace => workspace[Symlink].content # target
       /\ Mutated(WriteEntry(workspace, Symlink, "symlink", target))
  \/ /\ Symlink \in DOMAIN workspace
     /\ Mutated(RemoveEntry(workspace, Symlink))

\* An empty directory is added or removed.
change_empty_dir ==
  IF EmptyDir \in DOMAIN workspace
  THEN Mutated(RemoveEntry(workspace, EmptyDir))
  ELSE Mutated(WriteEntry(workspace, EmptyDir, "dir", <<>>))

\* A signer on a tree of two files, nothing signed yet.
SignerInit ==
  /\ pc = "idle"
  /\ frame = EmptyFrame
  /\ outcome = NoOutcome
  /\ calls = <<>>
  /\ workspace \in SignerTrees \cup NamedTrees
  /\ repo = [branch |-> MainBranch, heads |-> [b \in {MainBranch} |-> InitialCommit],
             index |-> InitialTree]
  /\ origin = [b \in {MainBranch} |-> InitialCommit]
  /\ merge_requests = <<>>
  /\ tags = <<>>
  /\ foundry = [drafts |-> [d \in DraftIds |-> "DRAFT"], approvals |-> {}]
  /\ release_state = <<>>
  /\ before = <<>>
  /\ parked = IdleContext
  /\ http = NoCall
  /\ signer = NoSigner
  /\ bundler = NoBundler
  /\ git_lfs = NoTracking
  /\ version_files = NoVersionFiles
  /\ transitions = 0
  /\ failures = 0

SignerNext ==
  \/ signer_create_signature
  \/ signer_verify_signature
  \/ mutate_content
  \/ rename_file
  \/ change_git_file
  \/ change_symlink
  \/ change_empty_dir

SignerSpec == SignerInit /\ [][SignerNext]_vars

\* ------------------------------------------------------------------ the bundler

\* ArtifactBundler.MODEL_EXTENSIONS and MODEL_FILENAMES.
MODEL_EXTENSIONS == {<<".", "s", "a", "f", "e", "t", "e", "n", "s", "o", "r", "s">>, <<".", "b", "i", "n">>, <<".", "p", "t">>}
MODEL_FILENAMES == {<<"a", "d", "a", "p", "t", "e", "r", "_", "c", "o", "n", "f", "i", "g", ".", "j", "s", "o", "n">>}

\* PurePath.name, and PurePath.suffix: the name from its last "." on, unless that
\* dot starts or ends the name.
name(p) == p[Len(p)]
RECURSIVE rfind(_, _)
rfind(text, c) ==
  IF text = <<>> THEN 0
  ELSE IF text[Len(text)] = c THEN Len(text)
  ELSE rfind(SubSeq(text, 1, Len(text) - 1), c)
suffix(p) ==
  LET i == rfind(name(p), ".")
  IN  IF 1 < i /\ i < Len(name(p)) THEN SubSeq(name(p), i, Len(name(p))) ELSE <<>>

_is_model_artifact(file_path) ==
  \/ name(file_path) \in MODEL_FILENAMES
  \/ suffix(file_path) \in MODEL_EXTENSIONS

\* file_path.stat().st_size: a file record may carry the size of a content that
\* is not spelled out; otherwise its size is the length of its content.
st_size(entry) == IF "size" \in DOMAIN entry THEN entry.size ELSE Len(entry.content)

\* PublisherConfig.remote_storage_threshold_bytes and lfs_threshold_bytes.
remote_storage_threshold_bytes(config) == config.remote_storage_threshold_mb * 1024 * 1024
lfs_threshold_bytes(config) == config.lfs_threshold_mb * 1024 * 1024

\* MockStorageProvider.upload, and the pointer record written over the file.
upload(file_path) == <<"m", "o", "c", "k", "-", "h", "a", "s", "h", "-">> \o name(file_path)
pointer_content(remote_hash) == <<"p", "o", "i", "n", "t", "e", "r", ":">> \o remote_hash \o <<"\n">>

\* The files _handle_remote_storage uploads: regular files outside .git whose
\* size is above the threshold.
is_ultra_large_or_equal(tree, file_path, threshold) ==
  /\ tree[file_path].kind = "file"
  /\ ~InParts(DotGit, file_path)
  /\ st_size(tree[file_path]) >= threshold
is_ultra_large(tree, file_path, threshold) ==
  /\ tree[file_path].kind = "file"
  /\ ~InParts(DotGit, file_path)
  /\ st_size(tree[file_path]) > threshold

\* GitLFS.find_large_files: the regular files outside .git above the threshold.
find_large_files(tree, threshold_bytes) ==
  {p \in DOMAIN tree :
     /\ tree[p].kind = "file"
     /\ ~InParts(DotGit, p)
     /\ st_size(tree[p]) > threshold_bytes}

\* The exceptions "except OSError" catches: OSError and its subclasses.
ConnectionError == <<"ConnectionError">>
FileNotFoundError == <<"FileNotFoundError">>
OSErrors == {OSError, ConnectionError, FileNotFoundError}

\* The directories of the workspace the bundler names.
ModelsDir == <<"m", "o", "d", "e", "l", "s">>
DistilledName == <<"d", "i", "s", "t", "i", "l", "l", "e", "d">>
TestsDir == <<"t", "e", "s", "t", "s">>
DistilledDir == <<ModelsDir, DistilledName>>
GitAttributesPath == <<<<".", "g", "i", "t", "a", "t", "t", "r", "i", "b", "u", "t", "e", "s">>>>

\* distilled_dir.mkdir(parents=True, exist_ok=True)
mkdir(tree, p) ==
  IF \E q \in DOMAIN tree : Len(q) >= Len(p) /\ SubSeq(q, 1, Len(p)) = p THEN tree
  ELSE WriteEntry(tree, p, "dir", <<>>)

\* The files collected when only .git, models/distilled/ and tests/ are excluded.
files_to_move_outside_destination(tree) ==
  {p \in DOMAIN tree :
     /\ tree[p].kind = "file"
     /\ ~InParts(DotGit, p)
     /\ ~(Len(p) > 2 /\ SubSeq(p, 1, 2) = DistilledDir)
     /\ p[1] # TestsDir
     /\ _is_model_artifact(p)}

\* The files _move_model_artifacts collects.
files_to_move(tree) ==
  {p \in DOMAIN tree :
     /\ tree[p].kind = "file"
     /\ ~InParts(DotGit, p) /\ ~InParts(ModelsDir, p) /\ ~InParts(TestsDir, p)
     /\ _is_model_artifact(p)}

\* A move that leaves a file that exists at the destination as it is and drops the
\* source.
shutil_move_kept(tree, src, dest) ==
  [q \in (DOMAIN tree \ {src}) \cup {dest} |->
     IF q = dest /\ dest \notin DOMAIN tree THEN tree[src] ELSE tree[q]]

\* shutil.move(src, dest) of a file onto a path that holds no directory.
shutil_move(tree, src, dest) ==
  [q \in (DOMAIN tree \ {src}) \cup {dest} |-> IF q = dest THEN tree[src] ELSE tree[q]]

\* The second loop of _move_model_artifacts, over the collected files in order.
RECURSIVE move_files(_, _)
move_files(tree, files) ==
  IF files = <<>> THEN tree
  ELSE move_files(shutil_move(tree, Head(files), DistilledDir \o <<name(Head(files))>>),
                  Tail(files))

\* json.load of a file's content: the report it serialises, when the content is a
\* JSON document.
is_json(content) == \E report \in Reports : json_dump(report) = content
json_load(content) == CHOOSE report \in Reports : json_dump(report) = content

\* git lfs track <patterns>: one line of .gitattributes per pattern.
RECURSIVE gitattributes(_)
gitattributes(patterns) ==
  IF patterns = <<>> THEN <<>>
  ELSE RelPathStr(Head(patterns)) \o <<" ", "f", "i", "l", "t", "e", "r", "=", "l", "f", "s", " ", "d", "i", "f", "f", "=", "l", "f", "s", " ", "m", "e", "r", "g", "e", "=", "l", "f", "s", " ", "-", "t", "e", "x", "t", "\n">>
       \o gitattributes(Tail(patterns))

\* The files of a workspace the bundler runs on.  A record with a size stands for
\* a file of that many bytes, its content naming the bytes.
WBin == <<<<"w", ".", "b", "i", "n">>>>
SubWBin == <<<<"a">>, <<"w", ".", "b", "i", "n">>>>
AdapterConfig == <<<<"a", "d", "a", "p", "t", "e", "r", "_", "c", "o", "n", "f", "i", "g", ".", "j", "s", "o", "n">>>>
GitObject == <<<<".", "g", "i", "t">>, <<"o", ".", "b", "i", "n">>>>
TestData == <<<<"t", "e", "s", "t", "s">>, <<"t", ".", "p", "t">>>>
ModelsWBin == <<<<"m", "o", "d", "e", "l", "s">>, <<"w", ".", "b", "i", "n">>>>
DistilledWBin == <<<<"m", "o", "d", "e", "l", "s">>, <<"d", "i", "s", "t", "i", "l", "l", "e", "d">>, <<"w", ".", "b", "i", "n">>>>
LinkBin == <<<<"l", ".", "b", "i", "n">>>>

MiB == 1024 * 1024
BundlerSizes == {0, 1, MiB, MiB + 1}
DataSizes == {1, MiB + 1}
ThresholdsMb == {0, 1}

SizedFile(content, size) == [kind |-> "file", content |-> content, size |-> size]

BaseTree(w_size, data_size) ==
  [p \in {WBin, DataPath, EvidencePath} |->
     IF p = WBin THEN SizedFile(<<"w">>, w_size)
     ELSE IF p = DataPath THEN SizedFile(<<"d">>, data_size)
     ELSE [kind |-> "file", content |-> json_dump(CHOOSE report \in Reports : TRUE)]]

ExtraFiles ==
  {[p \in {} |-> SizedFile(<<>>, 0)],
   [p \in {SubWBin} |-> SizedFile(<<"a">>, MiB + 1)],
   [p \in {AdapterConfig} |-> SizedFile(<<"c">>, 1)],
   [p \in {GitObject} |-> SizedFile(<<"o">>, MiB + 1)],
   [p \in {TestData} |-> SizedFile(<<"t">>, MiB + 1)],
   [p \in {ModelsWBin} |-> SizedFile(<<"m">>, MiB + 1)],
   [p \in {DistilledWBin} |-> SizedFile(<<"x">>, 1)],
   [p \in {LinkBin} |-> [kind |-> "symlink", content |-> name(WBin)]]}

BundlerTrees ==
  {BaseTree(w_size, data_size) @@ extra :
     w_size \in BundlerSizes, data_size \in DataSizes, extra \in ExtraFiles}
  \cup {RemoveEntry(BaseTree(1, 1), EvidencePath)}

Configs ==
  {[lfs_threshold_mb |-> lfs, remote_storage_threshold_mb |-> remote] :
     lfs \in ThresholdsMb, remote \in ThresholdsMb \cup {2}}

\* What a bundle run leaves alone.
OutsideBundler ==
  <<pc, frame, outcome, calls, repo, External, before, parked, http, signer, git_lfs, version_files,
    transitions>>

\* The run moves on: the call is logged.
BundlerGoto(call, next) ==
  [bundler EXCEPT !.pc = next, !.calls = Append(@, Called(call, FALSE))]
\* The run ends with an exception.
BundlerRaise(call, exception) ==
  [bundler EXCEPT !.pc = "done", !.calls = Append(@, Called(call, TRUE)),
                  !.result = exception]

\* bundle(workspace_path): the workspace exists; the scan of _handle_remote_storage
\* starts.
bundle_start ==
  /\ bundler.pc = "bundle"
  /\ bundler' = [bundler EXCEPT !.pc = "_handle_remote_storage", !.scan = DOMAIN workspace,
                                !.result = Running]
  /\ UNCHANGED workspace
  /\ UNCHANGED <<OutsideBundler, failures>>

\* One iteration of the loop of _handle_remote_storage, on an entry that is no
\* regular file, lies in .git or is not above the threshold.
remote_storage_continue ==
  /\ bundler.pc = "_handle_remote_storage"
  /\ \E file_path \in bundler.scan :
       /\ ~is_ultra_large(workspace, file_path, remote_storage_threshold_bytes(bundler.config))
       /\ bundler' = [bundler EXCEPT !.scan = @ \ {file_path}]
  /\ UNCHANGED workspace
  /\ UNCHANGED <<OutsideBundler, failures>>

\* file_path.stat() raises OSError: the handler of the loop body logs a warning
\* and the loop goes on.
remote_storage_stat_raises ==
  /\ bundler.pc = "_handle_remote_storage"
  /\ failures < MaxFailures /\ failures' = failures + 1
  /\ \E file_path \in bundler.scan :
       /\ workspace[file_path].kind = "file" /\ ~InParts(DotGit, file_path)
       /\ bundler' = [bundler EXCEPT !.scan = @ \ {file_path},
                                     !.skipped = @ \cup {[path |-> file_path, at |-> "stat"]}]
  /\ UNCHANGED workspace
  /\ UNCHANGED OutsideBundler

\* The file is above the threshold, the upload returns and the pointer is written.
remote_storage_upload ==
  /\ bundler.pc = "_handle_remote_storage"
  /\ \E file_path \in bundler.scan :
       /\ is_ultra_large(workspace, file_path, remote_storage_threshold_bytes(bundler.config))
       /\ workspace' = WriteFile(workspace, file_path, pointer_content(upload(file_path)))
       /\ bundler' = [bundler EXCEPT !.scan = @ \ {file_path},
                                     !.pointers = @ \cup {file_path},
                                     !.calls = Append(@, Called("upload", FALSE))]
  /\ UNCHANGED <<OutsideBundler, failures>>

\* What the loop body's "except OSError" does with an exception of the body:
\* TRUE when the exception is caught (a warning is logged and the loop goes on).
_handle_remote_storage_catches(exception) == exception \in OSErrors

\* The file is above the threshold and storage_provider.upload raises.
remote_storage_upload_raises ==
  /\ bundler.pc = "_handle_remote_storage"
  /\ failures < MaxFailures /\ failures' = failures + 1
  /\ \E file_path \in bundler.scan, exception \in {RuntimeError, ConnectionError} :
       /\ is_ultra_large(workspace, file_path, remote_storage_threshold_bytes(bundler.config))
       /\ IF _handle_remote_storage_catches(exception)
          THEN bundler' = [bundler EXCEPT !.scan = @ \ {file_path},
                             !.skipped = @ \cup {[path |-> file_path, at |-> "upload"]},
                             !.calls = Append(@, Called("upload", TRUE))]
          ELSE bundler' = [BundlerRaise("upload", exception) EXCEPT
                             !.failed = file_path,
                             !.calls = Append(@, Called("_handle_remote_storage", TRUE))]
  /\ UNCHANGED workspace
  /\ UNCHANGED OutsideBundler

\* The upload returned and opening the file for writing raises OSError.
remote_storage_write_raises ==
  /\ bundler.pc = "_handle_remote_storage"
  /\ failures < MaxFailures /\ failures' = failures + 1
  /\ \E file_path \in bundler.scan :
       /\ is_ultra_large(workspace, file_path, remote_storage_threshold_bytes(bundler.config))
       /\ bundler' = [bundler EXCEPT !.scan = @ \ {file_path},
                                     !.skipped = @ \cup {[path |-> file_path, at |-> "write"]},
                                     !.calls = Append(@, Called("upload", FALSE))]
  /\ UNCHANGED workspace
  /\ UNCHANGED OutsideBundler

\* The scan is over and control passes to _configure_lfs.
remote_storage_returns_to_lfs ==
  /\ bundler.pc = "_handle_remote_storage"
  /\ bundler.scan = {}
  /\ bundler' = [BundlerGoto("_handle_remote_storage", "_configure_lfs") EXCEPT
                   !.post_offload = workspace]
  /\ UNCHANGED workspace
  /\ UNCHANGED <<OutsideBundler, failures>>

\* The scan is over: _handle_remote_storage returns.
remote_storage_returns ==
  /\ bundler.pc = "_handle_remote_storage"
  /\ bundler.scan = {}
  /\ bundler' = [BundlerGoto("_handle_remote_storage", "_move_model_artifacts") EXCEPT
                   !.post_offload = workspace]
  /\ UNCHANGED workspace
  /\ UNCHANGED <<OutsideBundler, failures>>

\* _move_model_artifacts: the destination is created, the files are collected and
\* moved in the order rglob listed them.
move_model_artifacts ==
  /\ bundler.pc = "_move_model_artifacts"
  /\ LET tree == mkdir(workspace, DistilledDir)
     IN  \E files \in Orders(files_to_move(tree)) :
           workspace' = move_files(tree, files)
  /\ bundler' = BundlerGoto("_move_model_artifacts", "_configure_lfs")
  /\ UNCHANGED <<OutsideBundler, failures>>

\* _configure_lfs: git_lfs.is_installed()
configure_lfs_is_installed ==
  /\ bundler.pc = "_configure_lfs"
  /\ \E installed \in BOOLEAN :
       IF installed
       THEN bundler' = [BundlerGoto("is_installed", "is_initialized") EXCEPT
                          !.git_lfs.installed = TRUE]
       ELSE bundler' = [BundlerRaise("is_installed", RuntimeError) EXCEPT
                          !.calls = Append(@, Called("_configure_lfs", TRUE))]
  /\ UNCHANGED workspace
  /\ UNCHANGED <<OutsideBundler, failures>>

\* git_lfs.is_initialized(workspace_path), initialize being passed over.
configure_lfs_is_initialized_only ==
  /\ bundler.pc = "is_initialized"
  /\ \E initialized \in BOOLEAN :
       bundler' = [BundlerGoto("is_initialized", "find_large_files")
                     EXCEPT !.git_lfs.initialized = initialized,
                            !.git_lfs.returned = <<initialized>>]
  /\ UNCHANGED workspace
  /\ UNCHANGED <<OutsideBundler, failures>>

\* git_lfs.is_initialized(workspace_path)
configure_lfs_is_initialized ==
  /\ bundler.pc = "is_initialized"
  /\ \E initialized \in BOOLEAN :
       bundler' = [BundlerGoto("is_initialized",
                               IF initialized THEN "find_large_files" ELSE "initialize")
                     EXCEPT !.git_lfs.initialized = initialized,
                            !.git_lfs.returned = <<initialized>>]
  /\ UNCHANGED workspace
  /\ UNCHANGED <<OutsideBundler, failures>>

\* git_lfs.initialize(workspace_path): "git lfs install --local" succeeds, or
\* fails and RuntimeError is raised.
configure_lfs_initialize ==
  /\ bundler.pc = "initialize"
  /\ \/ /\ bundler' = [BundlerGoto("initialize", "find_large_files") EXCEPT
                         !.git_lfs.initialized = TRUE]
        /\ UNCHANGED failures
     \/ /\ failures < MaxFailures /\ failures' = failures + 1
        /\ bundler' = [BundlerRaise("initialize", RuntimeError) EXCEPT
                         !.calls = Append(@, Called("_configure_lfs", TRUE))]
  /\ UNCHANGED workspace
  /\ UNCHANGED OutsideBundler

\* large_files = git_lfs.find_large_files(workspace_path, threshold)
configure_lfs_find_large_files ==
  /\ bundler.pc = "find_large_files"
  /\ bundler' = [BundlerGoto("find_large_files", "track_patterns") EXCEPT
                   !.large_files = find_large_files(workspace,
                                                    lfs_threshold_bytes(bundler.config))]
  /\ UNCHANGED workspace
  /\ UNCHANGED <<OutsideBundler, failures>>

\* if large_files: git_lfs.track_patterns(workspace_path, large_files); then
\* _configure_lfs returns.
configure_lfs_track_patterns ==
  /\ bundler.pc = "track_patterns"
  /\ IF bundler.large_files # {}
     THEN /\ \E patterns \in Orders(bundler.large_files) :
               workspace' = WriteFile(workspace, GitAttributesPath, gitattributes(patterns))
          /\ bundler' = [BundlerGoto("track_patterns", "create_snapshot") EXCEPT
                           !.tracked = bundler.large_files,
                           !.calls = Append(@, Called("_configure_lfs", FALSE))]
     ELSE /\ bundler' = BundlerGoto("_configure_lfs", "create_snapshot")
          /\ UNCHANGED workspace
  /\ UNCHANGED <<OutsideBundler, failures>>

\* council_snapshot.create_snapshot(assay_report, council_manifest)
bundle_create_snapshot ==
  /\ bundler.pc = "create_snapshot"
  /\ IF EvidencePath \notin DOMAIN workspace
     THEN /\ bundler' = BundlerRaise("create_snapshot", FileNotFoundError)
          /\ UNCHANGED workspace
     ELSE IF ~is_json(workspace[EvidencePath].content)
     THEN /\ bundler' = BundlerRaise("create_snapshot", ValueError)
          /\ UNCHANGED workspace
     ELSE /\ workspace' = create_snapshot(workspace, json_load(workspace[EvidencePath].content))
          /\ bundler' = BundlerGoto("create_snapshot", "_generate_certificate")
  /\ UNCHANGED <<OutsideBundler, failures>>

\* _generate_certificate(workspace_path, assay_report); then bundle returns.
bundle_generate_certificate ==
  /\ bundler.pc = "_generate_certificate"
  /\ IF EvidencePath \notin DOMAIN workspace
        \/ ~is_json(workspace[EvidencePath].content)
     THEN /\ bundler' = BundlerRaise("_generate_certificate", RuntimeError)
          /\ UNCHANGED workspace
     ELSE /\ workspace' = _generate_certificate(workspace,
                                                json_load(workspace[EvidencePath].content))
          /\ bundler' = [BundlerGoto("_generate_certificate", "done") EXCEPT !.result = Ok]
  /\ UNCHANGED <<OutsideBundler, failures>>

\* A bundler on a workspace with a configuration of the two thresholds;
\* bundle(workspace_path) was called.
BundlerInit ==
  /\ pc = "idle"
  /\ frame = EmptyFrame
  /\ outcome = NoOutcome
  /\ calls = <<>>
  /\ workspace \in BundlerTrees
  /\ repo = [branch |-> MainBranch, heads |-> [b \in {MainBranch} |-> InitialCommit],
             index |-> InitialTree]
  /\ origin = [b \in {MainBranch} |-> InitialCommit]
  /\ merge_requests = <<>>
  /\ tags = <<>>
  /\ foundry = [drafts |-> [d \in DraftIds |-> "DRAFT"], approvals |-> {}]
  /\ release_state = <<>>
  /\ before = <<>>
  /\ parked = IdleContext
  /\ http = NoCall
  /\ signer = NoSigner
  /\ \E config \in Configs :
       bundler = [NoBundler EXCEPT !.pc = "bundle", !.config = config, !.tree = workspace]
  /\ git_lfs = NoTracking
  /\ version_files = NoVersionFiles
  /\ transitions = 0
  /\ failures = 0

BundlerNext ==
  \/ bundle_start
  \/ remote_storage_continue
  \/ remote_storage_stat_raises
  \/ remote_storage_upload
  \/ remote_storage_upload_raises
  \/ remote_storage_write_raises
  \/ remote_storage_returns
  \/ move_model_artifacts
  \/ configure_lfs_is_installed
  \/ configure_lfs_is_initialized
  \/ configure_lfs_initialize
  \/ configure_lfs_find_large_files
  \/ configure_lfs_track_patterns
  \/ bundle_create_snapshot
  \/ bundle_generate_certificate

BundlerSpec == BundlerInit /\ [][BundlerNext]_vars

\* ------------------------------------------------------------------ tracked patterns

\* How many times track_patterns is called on one repository.
MaxTrackCalls == 2

\* re.search(rf"^{re.escape(pattern)}\s+filter=lfs", existing_attributes, re.MULTILINE):
\* at the start of some line the pattern stands as given, then whitespace (a line
\* break included), then filter=lfs.
FilterLfs == <<"f", "i", "l", "t", "e", "r", "=", "l", "f", "s">>
is_tracked(existing_attributes, pattern) ==
  \E i \in 1..Len(existing_attributes) :
    /\ i = 1 \/ existing_attributes[i - 1] = "\n"
    /\ StartsWithAt(existing_attributes, i, pattern)
    /\ \E j \in (i + Len(pattern) + 1)..Len(existing_attributes) :
         /\ \A k \in (i + Len(pattern))..(j - 1) : IsSpace(existing_attributes[k])
         /\ StartsWithAt(existing_attributes, j, FilterLfs)

\* The loop of track_patterns: the requested patterns that are not tracked, in the
\* order of the request.
new_patterns(existing_attributes, patterns) ==
  SelectSeq(patterns, LAMBDA pattern : ~is_tracked(existing_attributes, pattern))

\* What "git lfs track" writes for a pattern: the pattern with every blank as
\* [[:space:]] (or, by a tool that does not escape, as given) and the attributes.
RECURSIVE escape_pattern(_)
escape_pattern(pattern) ==
  IF pattern = <<>> THEN <<>>
  ELSE (IF Head(pattern) = " " THEN <<"[", "[", ":", "s", "p", "a", "c", "e", ":", "]", "]">> ELSE <<Head(pattern)>>)
       \o escape_pattern(Tail(pattern))
LfsAttributes == <<" ", "f", "i", "l", "t", "e", "r", "=", "l", "f", "s", " ", "d", "i", "f", "f", "=", "l", "f", "s", " ", "m", "e", "r", "g", "e", "=", "l", "f", "s", " ", "-", "t", "e", "x", "t", "\n">>
HasLine(attributes, line) ==
  \E i \in 1..Len(attributes) :
    (i = 1 \/ attributes[i - 1] = "\n") /\ StartsWithAt(attributes, i, line)

\* subprocess.run(["git", "lfs", "track"] + new_patterns): a line is added to
\* .gitattributes for every pattern that has none.
RECURSIVE git_lfs_track(_, _, _)
git_lfs_track(attributes, patterns, escapes) ==
  IF patterns = <<>> THEN attributes
  ELSE LET line == (IF escapes THEN escape_pattern(Head(patterns)) ELSE Head(patterns))
                   \o LfsAttributes
       IN  git_lfs_track(IF HasLine(attributes, line) THEN attributes ELSE attributes \o line,
                         Tail(patterns), escapes)

\* The patterns track_patterns is asked for: a plain file, a file with a blank in
\* its name, and a third file.
PatternW == <<"w", ".", "b", "i", "n">>
PatternBlank == <<"a", " ", "b", ".", "b", "i", "n">>
PatternD == <<"d", ".", "p", "t">>
Patterns == {PatternW, PatternBlank, PatternD}
PatternLists == {<<>>} \cup {<<p>> : p \in Patterns} \cup {<<p, q>> : p, q \in Patterns}

\* The repository before the first call: without .gitattributes, with an empty one,
\* with the line git lfs track writes for w.bin, and with a line for w.bin whose
\* attributes a user wrote in another order.
TrackTrees ==
  {[p \in {} |-> [kind |-> "file", content |-> <<>>]]}
  \cup {[p \in {GitAttributesPath} |-> [kind |-> "file", content |-> content]] :
          content \in {<<>>,
                       PatternW \o LfsAttributes,
                       PatternW \o <<" ", "d", "i", "f", "f", "=", "l", "f", "s", " ", "f", "i", "l", "t", "e", "r", "=", "l", "f", "s", " ", "m", "e", "r", "g", "e", "=", "l", "f", "s", " ", "-", "t", "e", "x", "t", "\n">>}}

\* gitattributes_path.read_text() when the file exists, "" otherwise.
existing_attributes(tree) ==
  IF GitAttributesPath \in DOMAIN tree THEN tree[GitAttributesPath].content ELSE <<>>

\* What a call of track_patterns did: the request, .gitattributes as it was read,
\* the argument lists "git lfs track" was run with, and whether the call raised.
Tracked(patterns, existing, ran, raised) ==
  [patterns |-> patterns, existing |-> existing, ran |-> ran, raised |-> raised]

OutsideTracking ==
  <<pc, frame, outcome, calls, repo, External, before, parked, http, signer, bundler,
    version_files, transitions>>

\* git_lfs.track_patterns(repo_path, patterns): nothing is run for an empty request
\* or when no requested pattern is new; otherwise the tool runs and returns.
track_patterns ==
  /\ Len(git_lfs) < MaxTrackCalls
  /\ \E patterns \in PatternLists :
       LET existing == existing_attributes(workspace)
           new == IF patterns = <<>> THEN <<>> ELSE new_patterns(existing, patterns)
       IN  IF new = <<>>
           THEN /\ git_lfs' = Append(git_lfs, Tracked(patterns, existing, <<>>, FALSE))
                /\ UNCHANGED workspace
           ELSE \E escapes \in BOOLEAN :
                  /\ git_lfs' = Append(git_lfs, Tracked(patterns, existing, <<new>>, FALSE))
                  /\ workspace' = WriteFile(workspace, GitAttributesPath,
                                            git_lfs_track(existing, new, escapes))
  /\ UNCHANGED <<OutsideTracking, failures>>

\* The tool fails (CalledProcessError or a missing git): RuntimeError is raised.
track_patterns_raises ==
  /\ Len(git_lfs) < MaxTrackCalls
  /\ failures < MaxFailures /\ failures' = failures + 1
  /\ \E patterns \in PatternLists :
       LET existing == existing_attributes(workspace)
           new == IF patterns = <<>> THEN <<>> ELSE new_patterns(existing, patterns)
       IN  /\ new # <<>>
           /\ git_lfs' = Append(git_lfs, Tracked(patterns, existing, <<new>>, TRUE))
  /\ UNCHANGED workspace
  /\ UNCHANGED OutsideTracking

TrackInit ==
  /\ pc = "idle"
  /\ frame = EmptyFrame
  /\ outcome = NoOutcome
  /\ calls = <<>>
  /\ workspace \in TrackTrees
  /\ repo = [branch |-> MainBranch, heads |-> [b \in {MainBranch} |-> InitialCommit],
             index |-> InitialTree]
  /\ origin = [b \in {MainBranch} |-> InitialCommit]
  /\ merge_requests = <<>>
  /\ tags = <<>>
  /\ foundry = [drafts |-> [d \in DraftIds |-> "DRAFT"], approvals |-> {}]
  /\ release_state = <<>>
  /\ before = <<>>
  /\ parked = IdleContext
  /\ http = NoCall
  /\ signer = NoSigner
  /\ bundler = NoBundler
  /\ git_lfs = NoTracking
  /\ version_files = NoVersionFiles
  /\ transitions = 0
  /\ failures = 0

TrackNext ==
  \/ track_patterns
  \/ track_patterns_raises

TrackSpec == TrackInit /\ [][TrackNext]_vars

\* ------------------------------------------------------------------ version files

\* How many times update_files is called on one workspace.
MaxPersists == 3

\* The versions update_files is called with (results of calculate_next_version).
PersistVersions == {FormatVersion(0, 2, 0), FormatVersion(1, 1, 0)}

\* CHANGELOG.md in the workspace: with one version heading and no final newline,
\* without a version heading, with text around the heading, with two headings, empty.
Changelogs ==
  {<<"#", " ", "C", "h", "a", "n", "g", "e", "l", "o", "g", "\n", "\n", "#", "#", " ", "[", "0", ".", "1", ".", "0", "]", " ", "-", " ", "2", "0", "2", "4", "-", "0", "1", "-", "0", "1", "\n", "\n", "-", " ", "O", "l", "d", " ", "c", "h", "a", "n", "g", "e", "s">>,
   <<"#", " ", "T", "i", "t", "l", "e", "\n", "S", "o", "m", "e", " ", "t", "e", "x", "t", ".">>,
   <<"#", " ", "C", "h", "a", "n", "g", "e", "l", "o", "g", "\n", "T", "h", "i", "s", " ", "i", "s", " ", "a", " ", "c", "h", "a", "n", "g", "e", "l", "o", "g", ".", "\n", "\n", "#", "#", " ", "[", "1", ".", "0", ".", "0", "]", " ", "-", " ", "2", "0", "2", "3", "-", "0", "1", "-", "0", "1", "\n", "-", " ", "F", "i", "r", "s", "t", " ", "r", "e", "l", "e", "a", "s", "e", "\n", "\n", "R", "a", "n", "d", "o", "m", " ", "t", "e", "x", "t", "\n">>,
   <<"#", " ", "C", "\n", "\n", "#", "#", " ", "[", "0", ".", "2", ".", "0", "]", " ", "-", " ", "2", "0", "2", "4", "-", "0", "2", "-", "0", "1", "\n", "\n", "-", " ", "b", "\n", "\n", "#", "#", " ", "[", "0", ".", "1", ".", "0", "]", " ", "-", " ", "2", "0", "2", "4", "-", "0", "1", "-", "0", "1", "\n", "\n", "-", " ", "a", "\n">>,
   <<>>}

\* agent.yaml in the workspace: the version double-quoted between other keys,
\* single-quoted, unquoted, with spacing and comments, no version key, and a
\* version key whose value is empty (the next key follows on the next line).
AgentYamls ==
  {<<"n", "a", "m", "e", ":", " ", "t", "e", "s", "t", "\n", "v", "e", "r", "s", "i", "o", "n", ":", " ", "\"", "0", ".", "1", ".", "0", "\"", "\n", "o", "t", "h", "e", "r", ":", " ", "v", "a", "l">>,
   <<"v", "e", "r", "s", "i", "o", "n", ":", " ", "'", "0", ".", "1", ".", "0", "'">>,
   <<"v", "e", "r", "s", "i", "o", "n", ":", " ", "0", ".", "1", ".", "0">>,
   <<"\n", "n", "a", "m", "e", ":", " ", "\"", "m", "y", "-", "a", "g", "e", "n", "t", "\"", "\n", "#", " ", "T", "h", "i", "s", " ", "i", "s", " ", "t", "h", "e", " ", "v", "e", "r", "s", "i", "o", "n", "\n", "v", "e", "r", "s", "i", "o", "n", ":", " ", " ", " ", " ", "\"", "1", ".", "0", ".", "0", "\"", " ", " ", " ", "#", " ", "C", "u", "r", "r", "e", "n", "t", "\n", "d", "e", "s", "c", "r", "i", "p", "t", "i", "o", "n", ":", " ", "\"", "F", "a", "n", "c", "y", "\"", "\n">>,
   <<"n", "a", "m", "e", ":", " ", "t", "e", "s", "t", "\n">>,
   <<"v", "e", "r", "s", "i", "o", "n", ":", "\n", "n", "a", "m", "e", ":", " ", "t", "e", "s", "t", "\n">>}

\* The workspaces: each file is absent or has one of the contents.
WithFile(tree, p, contents) == {tree} \cup {WriteFile(tree, p, content) : content \in contents}
VersionTrees ==
  UNION {WithFile(tree, AgentYamlPath, AgentYamls) :
           tree \in WithFile(InitialTree, ChangelogPath, Changelogs)}

OutsideVersionFiles ==
  <<pc, frame, outcome, calls, repo, External, before, parked, http, signer, bundler,
    git_lfs, transitions, failures>>

\* self.version_manager.update_files(workspace_path, new_version)
version_manager_update_files ==
  /\ Len(version_files.versions) < MaxPersists
  /\ \E new_version \in PersistVersions :
       /\ workspace' = update_files(workspace, new_version)
       /\ version_files' = [version_files EXCEPT !.versions = Append(@, new_version)]
  /\ UNCHANGED OutsideVersionFiles

\* A workspace with or without the two files; update_files was not called yet.
FilesInit ==
  /\ pc = "idle"
  /\ frame = EmptyFrame
  /\ outcome = NoOutcome
  /\ calls = <<>>
  /\ workspace \in VersionTrees
  /\ repo = [branch |-> MainBranch, heads |-> [b \in {MainBranch} |-> InitialCommit],
             index |-> InitialTree]
  /\ origin = [b \in {MainBranch} |-> InitialCommit]
  /\ merge_requests = <<>>
  /\ tags = <<>>
  /\ foundry = [drafts |-> [d \in DraftIds |-> "DRAFT"], approvals |-> {}]
  /\ release_state = <<>>
  /\ before = <<>>
  /\ parked = IdleContext
  /\ http = NoCall
  /\ signer = NoSigner
  /\ bundler = NoBundler
  /\ git_lfs = NoTracking
  /\ version_files = [original |-> workspace, versions |-> <<>>]
  /\ transitions = 0
  /\ failures = 0

FilesNext == version_manager_update_files

FilesSpec == FilesInit /\ [][FilesNext]_vars

\* ------------------------------------------------------------------ properties

\* The names of the calls of the running transition, in order.
CallNames == [i \in 1..Len(calls) |-> calls[i].call]

\* Call i of the running transition was made and returned normally.
Returned(i, call) == i \in 1..Len(calls) /\ calls[i].call = call /\ ~calls[i].raised

\* The transition has ended; with Ok normally, otherwise with an exception.
Ended(op) == pc = "done" /\ frame.op = op
Succeeded(op) == Ended(op) /\ outcome = Ok
Failed(op) == Ended(op) /\ outcome # Ok

\* The audit emission of ElectronicSigner, as a collaborator call.
EmitAudit == "send_audit_to_veritas"

\* The content on the remote branch the merge request was opened from.
PushedTree(mr_id) == origin[merge_requests[mr_id].source_branch].tree

\* C1: a successful Finalize(mr_id, signature) has merged the merge request only if
\* the signature is the fingerprint of the content pushed on its candidate branch.
C1_AttestedIsMerged ==
  Succeeded("finalize") => frame.srb_signature = calculate_bundle_hash(PushedTree(frame.mr_id))

\* C2: in every successful Finalize the calls verify signature, emit audit, merge,
\* create tag, approve occur exactly once each and in exactly this order.
C2_FinalizeCallOrder ==
  Succeeded("finalize") =>
    SelectSeq(CallNames, LAMBDA c : c \in {"verify_signature", EmitAudit, "merge_merge_request",
                                           "create_tag", "approve_release"})
      = <<"verify_signature", EmitAudit, "merge_merge_request", "create_tag",
          "approve_release">>

\* C3: when the signature given to Finalize differs from the fingerprint of the
\* workspace and the verification has returned, Finalize has ended with the
\* validation error and has called nothing but the verification (no audit, merge,
\* tag or approval).
C3_MismatchAborts ==
  (/\ frame.op = "finalize"
   /\ frame.srb_signature # calculate_bundle_hash(workspace)
   /\ calls # <<>>
   /\ ~(Len(calls) = 1 /\ calls[1].raised /\ outcome = RuntimeError))
    => (pc = "done" /\ outcome = ValueError /\ CallNames = <<"verify_signature">>)

\* C3 happens: Finalize of an open merge request with a wrong signature has ended
\* with the validation error.
C3_Witness ==
  /\ Failed("finalize") /\ outcome = ValueError
  /\ frame.srb_signature # calculate_bundle_hash(workspace)
  /\ MergeRequestExists(frame.mr_id) /\ merge_requests[frame.mr_id].state = "opened"
  /\ get_last_tag # None

\* C4: the audit gates the externally visible actions: Propose pushes only after an
\* audit emitted after the commit has returned, and Finalize merges only after an
\* audit emitted after the verification has returned.
C4_AuditGates ==
  /\ frame.op = "propose" =>
       \A i \in 1..Len(calls) : calls[i].call = "push" =>
         \E j \in 1..(i - 1) : Returned(j, EmitAudit) /\ \E k \in 1..(j - 1) : Returned(k, "commit")
  /\ frame.op = "finalize" =>
       \A i \in 1..Len(calls) : calls[i].call = "merge_merge_request" =>
         \E j \in 1..(i - 1) : Returned(j, EmitAudit)
                               /\ \E k \in 1..(j - 1) : Returned(k, "verify_signature")

\* C5: in Propose the readiness check is called right after the commit has returned,
\* the push is called only right after the check has returned, and when the check
\* raises it is the last call (no push, merge request or submission) and its error
\* ends the transition.
C5_ReadinessGatesPush ==
  frame.op = "propose" =>
    \A i \in 1..Len(calls) :
      /\ calls[i].call = "verify_ready" => Returned(i - 1, "commit")
      /\ calls[i].call = "push" => Returned(i - 1, "verify_ready")
      /\ calls[i].call \in {"create_merge_request", "submit_for_review"} =>
           \E j \in 1..(i - 1) : Returned(j, "verify_ready")
      /\ (calls[i].call = "verify_ready" /\ calls[i].raised) =>
           (i = Len(calls) /\ pc = "done" /\ outcome = RuntimeError /\ Visible = before)

\* C5 happens: Propose has committed and the readiness check has raised.
C5_Witness ==
  /\ Failed("propose") /\ Len(calls) > 1
  /\ Returned(Len(calls) - 1, "commit")
  /\ calls[Len(calls)] = Called("verify_ready", TRUE)

\* C6: in Propose, when creating the merge request raises, it is the last call and
\* its error ends the transition, so the draft-review service is not notified; the
\* submission and the cross-reference comment are called only after the merge
\* request was created.
C6_NoSubmitWithoutMergeRequest ==
  frame.op = "propose" =>
    \A i \in 1..Len(calls) :
      /\ (calls[i].call = "create_merge_request" /\ calls[i].raised) =>
           /\ i = Len(calls) /\ pc = "done" /\ outcome = RuntimeError
           /\ foundry = before[4] /\ merge_requests = before[2]
      /\ calls[i].call \in {"submit_for_review", "post_comment"} =>
           \E j \in 1..(i - 1) : Returned(j, "create_merge_request")

\* C6 happens: Propose has pushed and creating the merge request has raised.
C6_Witness ==
  /\ Failed("propose") /\ Len(calls) > 1
  /\ Returned(Len(calls) - 1, "push")
  /\ calls[Len(calls)] = Called("create_merge_request", TRUE)

\* C7: in Reject the comment is the first call and the unlock is called only as the
\* second call after the comment has returned; when posting the comment raises,
\* nothing else is called, the draft is as it was and the error ends the transition.
C7_CommentBeforeUnlock ==
  (frame.op = "reject" /\ calls # <<>>) =>
    /\ calls[1].call = "post_comment"
    /\ \A i \in 1..Len(calls) :
         calls[i].call = "reject_release" => (i = 2 /\ Returned(1, "post_comment"))
    /\ calls[1].raised =>
         (Len(calls) = 1 /\ pc = "done" /\ outcome = RuntimeError /\ foundry = before[4])

\* C7 happens: Reject of an existing merge request whose draft is locked has ended
\* because posting the comment raised.
C7_Witness ==
  /\ Failed("reject") /\ calls = <<Called("post_comment", TRUE)>>
  /\ MergeRequestExists(frame.mr_id)
  /\ foundry.drafts[frame.draft_id] = "PENDING_SRB"

\* C8: in Reject, when the unlock raises after the comment was posted, the error
\* ends the transition, the calls are exactly the comment and one unlock, and the
\* merge request carries exactly one more note than before (the comment stays).
C8_UnlockFailureKeepsComment ==
  (frame.op = "reject" /\ \E i \in 1..Len(calls) : calls[i] = Called("reject_release", TRUE)) =>
    /\ pc = "done" /\ outcome = RuntimeError
    /\ calls = <<Called("post_comment", FALSE), Called("reject_release", TRUE)>>
    /\ merge_requests = [before[2] EXCEPT ![frame.mr_id].notes = Append(@, "Changes Requested")]
    /\ foundry = before[4]

\* C8 happens: Reject has posted the comment and the unlock has raised.
C8_Witness ==
  /\ Failed("reject") /\ Len(calls) = 2
  /\ calls[2] = Called("reject_release", TRUE)
  /\ Len(merge_requests[frame.mr_id].notes) > Len(before[2][frame.mr_id].notes)

\* C9: every release goes through Proposed -> Finalized or Proposed -> Rejected and
\* nothing else: a merge request is finalized or rejected only while it is Proposed.
C9_OnlyDefinedTransitions ==
  \A m \in 1..Len(release_state) :
    release_state[m] \in {<<"Proposed">>, <<"Proposed", "Finalized">>, <<"Proposed", "Rejected">>}

ChangesOrigin == {"push", "merge_merge_request"}
ChangesMergeRequests == {"create_merge_request", "post_comment", "merge_merge_request"}
ChangesTags == {"create_tag"}
ChangesFoundry == {"submit_for_review", "approve_release", "reject_release"}

\* Some call of the given set has returned in the running transition.
SomeReturned(names) == \E i \in 1..Len(calls) : calls[i].call \in names /\ ~calls[i].raised

C11_StopsAtFailingStep ==
  frame.op \in {"propose", "finalize", "reject"} =>
    /\ \A i \in 1..Len(calls) :
         calls[i].raised => (i = Len(calls) /\ pc = "done" /\ outcome \notin {NoOutcome, Running, Ok})
    /\ (pc = "done" /\ outcome # Ok) => (calls # <<>> /\ calls[Len(calls)].raised)
    /\ Len(calls) <= Len(CallsOf(frame.op))
    /\ CallNames = SubSeq(CallsOf(frame.op), 1, Len(calls))

\* C11 happens: Propose has opened the merge request and the submission has raised.
C11_Witness ==
  /\ Failed("propose") /\ Len(calls) > 1
  /\ Returned(Len(calls) - 1, "create_merge_request")
  /\ calls[Len(calls)] = Called("submit_for_review", TRUE)

\* C12: a successful Propose has made exactly the calls fetch report, write
\* evidence, current version, next version, checkout, persist version, bundle, sign,
\* stage, commit, emit audit, readiness check, push, create merge request, submit
\* for review, post comment, once each and in this order.
C12_ProposeStepOrder ==
  Succeeded("propose") =>
    CallNames = SubSeq(ProposeCalls, 1, 10) \o <<EmitAudit>> \o SubSeq(ProposeCalls, 11, 15)

\* C13: in Finalize, when the signature verified and the provider has no tag (the
\* current version is None), Finalize ends with the fatal error after the version
\* lookup: merge, create-tag and approve are not called.
C13_NoVersionAborts ==
  (/\ frame.op = "finalize" /\ before[3] = <<>>
   /\ Len(calls) >= 2 /\ Returned(1, "verify_signature"))
    => (/\ pc = "done" /\ outcome = RuntimeError
        /\ calls = <<Called("verify_signature", FALSE), Called("get_current_version", TRUE)>>
        /\ Visible = before)

\* C13 happens: Finalize of an open merge request with the right signature has
\* ended at the version lookup because the provider has no tag.
C13_Witness ==
  /\ Failed("finalize") /\ tags = <<>> /\ failures = 0
  /\ CallNames = <<"verify_signature", "get_current_version">>
  /\ MergeRequestExists(frame.mr_id) /\ merge_requests[frame.mr_id].state = "opened"

\* The next version a Propose started with the provider's tags of `before` computes.
NextVersionOf(bump_type) ==
  calculate_next_version(IF before[3] = <<>> THEN None ELSE before[3][Len(before[3])], bump_type)

\* C14: a successful Propose used one next version N throughout: the branch checked
\* out and pushed is candidate/N and holds the workspace, the persisted version is
\* N without its "v", the merge request goes from candidate/N to main, and the
\* draft is submitted; from v1.0.0 a minor bump gives candidate/v1.1.0 and 1.1.0.
C14_OneNextVersion ==
  Succeeded("propose") =>
    LET N == NextVersionOf(frame.bump_type)
        branch == <<"c", "a", "n", "d", "i", "d", "a", "t", "e", "/">> \o N
    IN  /\ repo.branch = branch
        /\ branch \in DOMAIN origin /\ origin[branch].tree = workspace
        /\ _read_agent_yaml_version(workspace) = LStrip(N, "v")
        /\ merge_requests[frame.new_mr_id].source_branch = branch
        /\ merge_requests[frame.new_mr_id].target_branch = <<"m", "a", "i", "n">>
        /\ foundry.drafts[frame.draft_id] = "PENDING_SRB"
        /\ (before[3] = <<FirstTag>> /\ frame.bump_type = "minor") =>
             /\ branch = <<"c", "a", "n", "d", "i", "d", "a", "t", "e", "/", "v", "1", ".", "1", ".", "0">>
             /\ _read_agent_yaml_version(workspace) = <<"1", ".", "1", ".", "0">>

\* C14 happens: a Propose with a minor bump from v1.0.0 has succeeded.
C14_Witness ==
  Succeeded("propose") /\ before[3] = <<FirstTag>> /\ frame.bump_type = "minor"

\* C15: through the HTTP server at most one transition is between its first and
\* its last step at any time: two requests never interleave their workspace
\* mutations or collaborator calls.
C15_OneTransitionAtATime ==
  ~(pc \notin {"idle", "done"} /\ parked.pc \notin {"idle", "done"})

\* A reply the clients take for a transient failure: an error of the transport or
\* a 5xx response.
IsTransient(reply) == ~IsResponse(reply) \/ reply.status_code >= 500
IsClientError(reply) ==
  IsResponse(reply) /\ 400 <= reply.status_code /\ reply.status_code <= 499

\* C16: an external HTTP call that receives a 4xx response fails permanently: the
\* request answered 4xx is the last one of the call (a call whose first response is
\* 4xx sends exactly one request), and the caller gets a RuntimeError.
C16_ClientErrorIsPermanent ==
  \A i \in 1..Len(http.requests) :
    IsClientError(http.requests[i]) =>
      /\ i = Len(http.requests)
      /\ http.pc = "done"
      /\ http.result = RuntimeError

C16_Witness ==
  /\ http.pc = "done" /\ http.method = "submit_for_review"
  /\ http.requests = <<[status_code |-> 404, body |-> "dict"]>>
  /\ http.result = RuntimeError

\* C17 (state part): a call makes at most 3 attempts; an attempt that failed with a
\* network error, a timeout or a 5xx response is followed by another one unless it
\* was the third; the call returns at the first attempt that succeeds; after the
\* third failure the error of that attempt reaches the caller.
C17_Bounded ==
  LET n == Len(http.requests)
  IN  /\ n <= 3
      /\ \A i \in 1..n :
           /\ i < n => IsTransient(http.requests[i])
           /\ (i = n /\ IsTransient(http.requests[i]) /\ i < 3) =>
                (http.pc \in {"wait", "attempt"} /\ http.result = Running)
           /\ (i = n /\ ~IsTransient(http.requests[i])) => http.pc = "done"
      /\ (http.pc = "done" /\ http.result = Ok) =>
           (IsResponse(http.requests[n]) /\ http.requests[n].status_code < 400)
      /\ (n = 3 /\ IsTransient(http.requests[3])) =>
           /\ http.pc = "done"
           /\ http.result = IF IsResponse(http.requests[3]) THEN HTTPStatusError
                             ELSE http.requests[3].error

HashedPaths(tree) ==
  {p \in DOMAIN tree : tree[p].kind = "file" /\ \A i \in 1..Len(p) : p[i] # DotGit}

\* The hashed files of the signed tree and of the tree on disk whose contents differ.
ChangedFiles ==
  {p \in HashedPaths(signer.tree) \cap HashedPaths(workspace) :
     signer.tree[p].content # workspace[p].content}

\* C18: verifying the signature of a tree that is as it was signed gives true, and
\* verifying it after the content of a hashed file was changed, even by a single
\* byte, gives false.
C18_RoundTrip ==
  signer.pc = "verified" =>
    /\ workspace = signer.tree => signer.verified = TRUE
    /\ (/\ HashedPaths(workspace) = HashedPaths(signer.tree)
        /\ ChangedFiles # {}) => signer.verified = FALSE

\* The part of C18 that holds: a tree as it was signed verifies, and a tree that
\* differs from the signed one in the content of exactly one hashed file does not.
C18_OneChangedFileDetected ==
  signer.pc = "verified" =>
    /\ workspace = signer.tree => signer.verified = TRUE
    /\ (/\ HashedPaths(workspace) = HashedPaths(signer.tree)
        /\ Cardinality(ChangedFiles) = 1) => signer.verified = FALSE

\* C19: a tree with the same relative paths and the same content per path has the
\* same fingerprint in whatever order its files are enumerated: the fingerprint of
\* the verification equals the one of the signing, and both are the digest of the
\* files in sorted order.
C19_Deterministic ==
  (signer.pc = "verified" /\ workspace = signer.tree) =>
    /\ signer.fingerprint = signer.signature
    /\ signer.fingerprint = calculate_bundle_hash(workspace)

C19_Witness ==
  /\ signer.pc = "verified" /\ workspace = signer.tree
  /\ signer.collected = <<FileB, FileA>> /\ signer.listed = <<FileA, FileB>>
  /\ signer.verified = TRUE

\* C20: the fingerprint depends only on the regular, non-symlink files outside .git
\* directories: whatever was added, removed or changed inside a .git directory at
\* any depth, whatever symlink or empty directory was added, removed or retargeted,
\* a tree with the same such files and contents has the fingerprint it was signed with.
C20_OnlyHashedFiles ==
  (/\ signer.pc = "verified"
   /\ HashedPaths(workspace) = HashedPaths(signer.tree)
   /\ ChangedFiles = {})
    => (signer.fingerprint = signer.signature /\ signer.verified = TRUE)

C20_Witness ==
  /\ signer.pc = "verified" /\ signer.verified = TRUE /\ signer.mutations = 2
  /\ <<<<"d">>, DotGit, <<"a">>>> \in DOMAIN workspace
  /\ <<<<"d">>, DotGit, <<"a">>>> \notin DOMAIN signer.tree
  /\ Symlink \in DOMAIN workspace

\* The tree on disk is the signed tree with one hashed file renamed: the file has
\* left its path for a path that was free, with its content, and every other entry
\* is as it was.
OneFileRenamed ==
  \E p \in HashedPaths(signer.tree), q \in HashedPaths(workspace) :
    /\ p \notin DOMAIN workspace /\ q \notin DOMAIN signer.tree
    /\ workspace[q].content = signer.tree[p].content
    /\ DOMAIN workspace \ {q} = DOMAIN signer.tree \ {p}
    /\ \A r \in DOMAIN workspace \ {q} : workspace[r] = signer.tree[r]

\* C21: for any tree, changing the relative path of one hashed file while every
\* file's content stays yields a different fingerprint.
C21_RenameChangesFingerprint ==
  (signer.pc = "verified" /\ OneFileRenamed) =>
    (signer.fingerprint # signer.signature /\ signer.verified = FALSE)

\* The part of C21 that holds: a rename of one hashed file to a name of one
\* character changes the fingerprint.
C21_RenameToShortName ==
  (/\ signer.pc = "verified" /\ OneFileRenamed
   /\ \E q \in HashedPaths(workspace) \ DOMAIN signer.tree : Len(q[1]) = 1) =>
    signer.fingerprint # signer.signature

\* C22: the signature is the fingerprint of the signed tree for every user: the
\* reviewer signing a tree obtains what the proposer obtains.
C22_SignatureIsFingerprint ==
  signer.pc \in {"signed", "verified"} =>
    /\ signer.user_id \in SignerUserIds
    /\ signer.signature = calculate_bundle_hash(signer.tree)

C22_Witness ==
  /\ signer.pc = "signed" /\ signer.user_id = "srb-1"
  /\ signer.tree = [p \in {FileA, FileB} |-> [kind |-> "file", content |-> <<"x">>]]
  /\ signer.signature = <<"a", "x", "b", "x">>

\* calculate_next_version has run on frame.current_version.
VersionCalculated == calls = <<Called("calculate_next_version", FALSE)>>
VersionRejected == calls = <<Called("calculate_next_version", TRUE)>>

\* C23: for an absent current version (None or empty) the next version is v0.1.0
\* whatever the bump; for a current version [v]M.m.p it is v(M+1).0.0 for major,
\* vM.(m+1).0 for minor and vM.m.(p+1) for patch.
C23_NextVersion ==
  /\ (VersionCalculated \/ VersionRejected) =>
       (frame.current_version \in {None, <<>>} =>
          VersionCalculated /\ frame.next_version = <<"v", "0", ".", "1", ".", "0">>)
  /\ \A prefix \in {<<>>, <<"v">>}, major \in 0..10, minor \in 0..10, patch \in 0..10 :
       ((VersionCalculated \/ VersionRejected)
        /\ frame.current_version = prefix \o Dotted(major, minor, patch)) =>
         /\ VersionCalculated
         /\ frame.bump_type = "major" =>
              frame.next_version = <<"v">> \o Dotted(major + 1, 0, 0)
         /\ frame.bump_type = "minor" =>
              frame.next_version = <<"v">> \o Dotted(major, minor + 1, 0)
         /\ frame.bump_type = "patch" =>
              frame.next_version = <<"v">> \o Dotted(major, minor, patch + 1)

C23_Witness ==
  /\ VersionCalculated /\ frame.bump_type = "minor"
  /\ frame.current_version = <<"v", "1", ".", "9", ".", "1", "0">>
  /\ frame.next_version = <<"v", "1", ".", "1", "0", ".", "0">>

\* Exactly three dot-separated runs of decimal digits.
ThreeNaturals(s) ==
  LET fields == Split(s, ".")
  IN  Len(fields) = 3 /\ \A i \in 1..3 : AllDigits(fields[i])

\* The string without one leading "v".
WithoutLeadingV(s) == IF s # <<>> /\ Head(s) = "v" THEN Tail(s) ELSE s

\* C24: for every non-empty current version that, after a leading v is stripped, is
\* not exactly three dot-separated non-negative integers, calculate_next_version
\* raises the validation error and returns no version.
C24_InvalidVersionRaises ==
  (/\ VersionCalculated \/ VersionRejected
   /\ frame.current_version \notin {None, <<>>}
   /\ ~ThreeNaturals(WithoutLeadingV(frame.current_version)))
    => (VersionRejected /\ outcome = ValueError /\ frame.next_version = None)

\* The part of C24 that holds: "abc", "1.2", "1", "v1.0.0-beta" and "v1.0.a" raise.
C24_MalformedRaises ==
  (/\ VersionCalculated \/ VersionRejected
   /\ frame.current_version \in
        {<<"a", "b", "c">>, <<"1", ".", "2">>, <<"1">>,
         <<"v", "1", ".", "0", ".", "0", "-", "b", "e", "t", "a">>,
         <<"v", "1", ".", "0", ".", "a">>})
    => (VersionRejected /\ outcome = ValueError /\ frame.next_version = None)

\* ---- bundle runs

\* The five phases of bundle, in the order of its body, and the positions of a
\* run that belong to each.
BundlePhases ==
  <<"_handle_remote_storage", "_move_model_artifacts", "_configure_lfs", "create_snapshot",
    "_generate_certificate">>
IsPhase(call) == \E i \in 1..Len(BundlePhases) : BundlePhases[i] = call
PhaseCalls == SelectSeq(bundler.calls, LAMBDA c : IsPhase(c.call))
PhaseOfPc(l) ==
  CASE l = "_handle_remote_storage" -> 1
    [] l = "_move_model_artifacts" -> 2
    [] l \in {"_configure_lfs", "is_initialized", "initialize", "find_large_files",
              "track_patterns"} -> 3
    [] l = "create_snapshot" -> 4
    [] l = "_generate_certificate" -> 5
    [] OTHER -> 0

\* Where a file of the post-offload tree is after co-location moved it.
MovedTo(p) == DistilledDir \o <<name(p)>>

\* C25: a bundle run ends its phases in the order offload, co-location, tracking,
\* manifest, certificate; a phase runs only when all phases before it returned, a
\* phase that raised is the last thing the run did, and co-location and tracking
\* see the files as the offload left them: a file replaced by a pointer is moved
\* as the pointer, and a file is reported for tracking by its size after the offload.
C25_PhasesInOrder ==
  /\ Len(PhaseCalls) <= Len(BundlePhases)
  /\ \A i \in 1..Len(PhaseCalls) :
       /\ PhaseCalls[i].call = BundlePhases[i]
       /\ PhaseCalls[i].raised => i = Len(PhaseCalls)
  /\ \A i \in 1..Len(bundler.calls) :
       (bundler.calls[i].raised /\ IsPhase(bundler.calls[i].call)) => i = Len(bundler.calls)
  /\ PhaseOfPc(bundler.pc) > 0 =>
       /\ Len(PhaseCalls) = PhaseOfPc(bundler.pc) - 1
       /\ \A i \in 1..Len(PhaseCalls) : ~PhaseCalls[i].raised
  /\ (bundler.pc = "done" /\ bundler.result = Ok) => Len(PhaseCalls) = Len(BundlePhases)
  /\ (bundler.pc = "done" /\ bundler.result # Ok) =>
       (PhaseCalls # <<>> /\ PhaseCalls[Len(PhaseCalls)].raised)
  /\ Len(PhaseCalls) >= 1 /\ ~PhaseCalls[1].raised =>
       \A p \in bundler.pointers :
         bundler.post_offload[p].content = pointer_content(upload(p))
  /\ Len(PhaseCalls) >= 2 =>
       \A p \in DOMAIN bundler.post_offload :
         \/ p \in DOMAIN workspace /\ workspace[p] = bundler.post_offload[p]
         \/ \E q \in DOMAIN bundler.post_offload :
              name(q) = name(p) /\ workspace[MovedTo(p)] = bundler.post_offload[q]
  /\ \A q \in bundler.large_files :
       /\ q \in DOMAIN workspace
       /\ st_size(workspace[q]) > lfs_threshold_bytes(bundler.config)

\* A run returned; it replaced a file above the large-object threshold by a pointer
\* and moved the pointer to models/distilled/.
C25_Witness ==
  /\ bundler.pc = "done" /\ bundler.result = Ok
  /\ WBin \in bundler.pointers
  /\ st_size(bundler.tree[WBin]) > lfs_threshold_bytes(bundler.config)
  /\ WBin \notin DOMAIN workspace
  /\ workspace[MovedTo(WBin)].content = pointer_content(upload(WBin))
  /\ MovedTo(WBin) \notin bundler.large_files

\* The run's uploads that raised, and what a run is left with when it raised.
UploadRaised == \E i \in 1..Len(bundler.calls) : bundler.calls[i] = Called("upload", TRUE)
BundleRaised == bundler.pc = "done" /\ bundler.result \notin {NoOutcome, Running, Ok}

\* C26: a failure of file_path.stat() skips that file only (it keeps its content and
\* the scan goes on), whereas whenever storage_provider.upload raised, the run has
\* ended with an exception, no phase has returned and the file was not replaced by
\* a pointer.
C26_UploadFailureIsFatal ==
  /\ \A s \in bundler.skipped :
       s.at = "stat" => (s.path \notin bundler.pointers
                         /\ (~BundleRaised => bundler.result \in {Running, Ok}))
  /\ UploadRaised =>
       /\ BundleRaised
       /\ \A i \in 1..Len(PhaseCalls) : PhaseCalls[i].raised
       /\ \A s \in bundler.skipped : s.at = "upload" => s.path \notin bundler.pointers

\* The part of C26 that holds: a file whose stat() raised is never uploaded and keeps
\* its content while the run goes on, and an upload that raised an exception outside
\* the OSError family ended the run in the offload phase with the file as it was.
C26_OtherUploadFailureIsFatal ==
  /\ \A s \in bundler.skipped :
       s.at = "stat" =>
         /\ s.path \notin bundler.pointers
         /\ bundler.pc = "_handle_remote_storage" => workspace[s.path] = bundler.tree[s.path]
  /\ bundler.failed # <<>> =>
       /\ BundleRaised /\ bundler.result = RuntimeError
       /\ PhaseCalls = <<Called("_handle_remote_storage", TRUE)>>
       /\ workspace[bundler.failed] = bundler.tree[bundler.failed]
       /\ bundler.failed \notin bundler.pointers

\* An upload raised ConnectionError and the run went on to return.
C26_Witness ==
  /\ UploadRaised
  /\ bundler.pc = "done" /\ bundler.result = Ok
  /\ \E s \in bundler.skipped : s.at = "upload" /\ workspace[s.path] = bundler.tree[s.path]

\* The regular files of a tree outside .git, and the paths the offload skipped.
ScannedFiles(tree) == {p \in DOMAIN tree : tree[p].kind = "file" /\ ~InParts(DotGit, p)}
SkippedPaths == {s.path : s \in bundler.skipped}
Written == {GitAttributesPath, ManifestPath, CertificatePath}

\* C27: the offload replaces exactly the scanned files whose size is greater than
\* remote_storage_threshold_mb * 1024 * 1024 bytes (a file of exactly that size is
\* left, one of a byte more is replaced unless a failure skipped it), and
\* find_large_files reports exactly the scanned files whose size is greater than
\* lfs_threshold_mb * 1024 * 1024 bytes; with a threshold of 0 these are the
\* non-empty files.
C27_StrictThresholds ==
  /\ \A p \in bundler.pointers :
       st_size(bundler.tree[p]) > bundler.config.remote_storage_threshold_mb * 1048576
  /\ Len(PhaseCalls) >= 1 /\ ~PhaseCalls[1].raised =>
       \A p \in ScannedFiles(bundler.tree) \ SkippedPaths :
         /\ st_size(bundler.tree[p]) >= bundler.config.remote_storage_threshold_mb * 1048576 + 1
              => p \in bundler.pointers
         /\ bundler.config.remote_storage_threshold_mb = 0 /\ st_size(bundler.tree[p]) # 0
              => p \in bundler.pointers
  /\ (\E i \in 1..Len(bundler.calls) : bundler.calls[i].call = "find_large_files") =>
       \A p \in ScannedFiles(workspace) \ Written :
         /\ p \in bundler.large_files
              <=> st_size(workspace[p]) >= bundler.config.lfs_threshold_mb * 1048576 + 1
         /\ st_size(workspace[p]) = bundler.config.lfs_threshold_mb * 1048576
              => p \notin bundler.large_files
         /\ bundler.config.lfs_threshold_mb = 0 /\ st_size(workspace[p]) # 0
              => p \in bundler.large_files

\* With a remote-storage threshold of 1 MB a file of 1048576 bytes was left and one
\* of 1048577 bytes was replaced; with a large-object threshold of 0 the file that
\* was left is reported.
C27_Witness ==
  /\ bundler.pc = "track_patterns"
  /\ bundler.config = [lfs_threshold_mb |-> 0, remote_storage_threshold_mb |-> 1]
  /\ st_size(bundler.tree[WBin]) = 1048576 /\ WBin \notin bundler.pointers
  /\ st_size(bundler.tree[DataPath]) = 1048577 /\ DataPath \in bundler.pointers
  /\ MovedTo(WBin) \in bundler.large_files

\* The files of the workspace that hold a pointer record the offload of this run
\* wrote.
PointerFiles ==
  {q \in DOMAIN workspace :
     \E p \in bundler.pointers :
       name(q) = name(p) /\ workspace[q].content = pointer_content(upload(p))}

\* C28: under every configuration of the two thresholds, no file the offload
\* replaced by a pointer is among the files the run passes to track_patterns, and
\* every pointer is at most lfs_threshold_mb * 1024 * 1024 bytes long.
C28_PointerNeverTracked ==
  /\ bundler.tracked \cap PointerFiles = {}
  /\ \A q \in PointerFiles : st_size(workspace[q]) <= lfs_threshold_bytes(bundler.config)

\* The part of C28 that holds: with a large-object threshold of at least 1 MB, also
\* with a remote-storage threshold below it, no pointer is reported or tracked.
C28_PointerBelowOneMegabyte ==
  bundler.config.lfs_threshold_mb >= 1 =>
    /\ (bundler.tracked \cup bundler.large_files) \cap PointerFiles = {}
    /\ \A q \in PointerFiles : st_size(workspace[q]) <= lfs_threshold_bytes(bundler.config)

\* With both thresholds 0 a file of one byte was replaced by a pointer and the
\* pointer was passed to track_patterns.
C28_Witness ==
  /\ bundler.config = [lfs_threshold_mb |-> 0, remote_storage_threshold_mb |-> 0]
  /\ st_size(bundler.tree[DataPath]) = 1
  /\ DataPath \in bundler.pointers
  /\ DataPath \in bundler.tracked
  /\ workspace[DataPath].content = pointer_content(upload(DataPath))

\* The calls of the run to the GitLFS collaborator, and where a call first occurs
\* among them (0 when it does not).
LfsCalls ==
  SelectSeq(bundler.calls,
            LAMBDA c : c.call \in {"is_installed", "is_initialized", "initialize",
                                   "find_large_files", "track_patterns"})
LfsCount(call) == Cardinality({i \in 1..Len(LfsCalls) : LfsCalls[i].call = call})
LfsIndex(call) ==
  IF LfsCount(call) = 0 THEN 0
  ELSE CHOOSE i \in 1..Len(LfsCalls) :
         LfsCalls[i].call = call /\ \A j \in 1..(i - 1) : LfsCalls[j].call # call

\* C29: when Git LFS is not installed the run raises with is_installed as the only
\* call to the collaborator; when is_initialized answered no, initialize is called
\* once and has returned before find_large_files is called (and is not called when
\* the answer was yes); track_patterns is called only after find_large_files
\* returned at least one file.
C29_LfsStep ==
  /\ LfsCount("is_installed") > 0 /\ LfsCalls[1].raised =>
       /\ LfsCalls = <<Called("is_installed", TRUE)>>
       /\ BundleRaised /\ bundler.result = RuntimeError
       /\ bundler.tracked = {}
  /\ bundler.git_lfs.returned = <<FALSE>> =>
       /\ bundler.pc = "initialize" \/ LfsCount("initialize") = 1
       /\ LfsCount("find_large_files") > 0 =>
            /\ LfsIndex("initialize") < LfsIndex("find_large_files")
            /\ ~LfsCalls[LfsIndex("initialize")].raised
  /\ bundler.git_lfs.returned = <<TRUE>> => LfsCount("initialize") = 0
  /\ bundler.git_lfs.returned = <<>> =>
       LfsCount("initialize") + LfsCount("find_large_files") + LfsCount("track_patterns") = 0
  /\ LfsCount("track_patterns") > 0 =>
       /\ LfsCount("track_patterns") = 1
       /\ LfsCount("find_large_files") = 1
       /\ LfsIndex("find_large_files") < LfsIndex("track_patterns")
       /\ bundler.large_files # {}
       /\ bundler.tracked = bundler.large_files
  /\ LfsCount("track_patterns") = 0 => bundler.tracked = {}

\* Git LFS was installed and not initialized: initialize, find_large_files and
\* track_patterns were called in this order.
C29_Witness ==
  /\ bundler.git_lfs.returned = <<FALSE>>
  /\ LfsCalls = <<Called("is_installed", FALSE), Called("is_initialized", FALSE),
                  Called("initialize", FALSE), Called("find_large_files", FALSE),
                  Called("track_patterns", FALSE)>>
  /\ bundler.tracked # {}

\* The tree co-location started on, its files on the allow-list, and the paths
\* below models/distilled/.
AllowListed ==
  {p \in DOMAIN bundler.post_offload :
     /\ bundler.post_offload[p].kind = "file"
     /\ \/ name(p) = <<"a", "d", "a", "p", "t", "e", "r", "_", "c", "o", "n", "f", "i", "g", ".", "j", "s", "o", "n">>
        \/ suffix(p) \in {<<".", "s", "a", "f", "e", "t", "e", "n", "s", "o", "r", "s">>, <<".", "b", "i", "n">>, <<".", "p", "t">>}}
UnderDestination(p) == Len(p) > 2 /\ p[1] = ModelsDir /\ p[2] = DistilledName
CoLocated == Len(PhaseCalls) >= 2

\* C30 as stated: after co-location every allow-listed regular file that lay
\* outside .git, models/distilled/ and tests/ is at models/distilled/<name> and no
\* longer at its source path, and every other entry is where it was.
C30_OutsideDestinationMoved ==
  CoLocated =>
    LET Matched == {p \in AllowListed :
                      ~InParts(DotGit, p) /\ ~UnderDestination(p) /\ p[1] # TestsDir}
    IN  /\ \A p \in Matched : p \notin DOMAIN workspace /\ MovedTo(p) \in DOMAIN workspace
        /\ \A p \in DOMAIN bundler.post_offload \ Matched : p \in DOMAIN workspace

\* C30, amended: after co-location every allow-listed regular file that had no
\* component named .git, models or tests in its relative path is no longer at its
\* source path, and models/distilled/<name> holds one of the moved files of that
\* name (the file itself when no other moved file has its name); every other
\* entry, symlinks included, is where it was, with its content unless a moved file
\* of the same name replaced it in models/distilled/.
C30_CoLocation ==
  CoLocated =>
    LET Moved == {p \in AllowListed :
                    ~InParts(DotGit, p) /\ ~InParts(ModelsDir, p) /\ ~InParts(TestsDir, p)}
    IN  /\ \A p \in Moved :
             /\ p \notin DOMAIN workspace
             /\ MovedTo(p) \in DOMAIN workspace
             /\ \E q \in Moved :
                  name(q) = name(p) /\ workspace[MovedTo(p)] = bundler.post_offload[q]
             /\ (\A q \in Moved \ {p} : name(q) # name(p))
                  => workspace[MovedTo(p)] = bundler.post_offload[p]
        /\ \A p \in DOMAIN bundler.post_offload \ Moved :
             /\ p \in DOMAIN workspace
             /\ \/ workspace[p] = bundler.post_offload[p]
                \/ \E q \in Moved : MovedTo(q) = p /\ workspace[p] = bundler.post_offload[q]

\* Co-location moved w.bin to models/distilled/ and left models/w.bin, which is on
\* the allow-list and outside models/distilled/, where it was.
C30_Witness ==
  /\ CoLocated
  /\ WBin \in DOMAIN bundler.post_offload /\ WBin \notin DOMAIN workspace
  /\ workspace[MovedTo(WBin)] = bundler.post_offload[WBin]
  /\ ModelsWBin \in DOMAIN workspace
  /\ workspace[ModelsWBin] = bundler.post_offload[ModelsWBin]

\* ---- tracked patterns

\* The pattern a field of .gitattributes stands for: [[:space:]] is a blank.
RECURSIVE unescape_pattern(_)
unescape_pattern(written) ==
  IF written = <<>> THEN <<>>
  ELSE IF StartsWithAt(written, 1, <<"[", "[", ":", "s", "p", "a", "c", "e", ":", "]", "]">>)
       THEN <<" ">> \o unescape_pattern(SubSeq(written, 12, Len(written)))
       ELSE <<Head(written)>> \o unescape_pattern(Tail(written))

\* .gitattributes records the pattern as tracked: some line has the pattern as its
\* first field and filter=lfs among its attributes.
RecordedAsTracked(attributes, pattern) ==
  \E n \in 1..Len(SplitLines(attributes)) :
    LET fields == SelectSeq(Split(SplitLines(attributes)[n], " "), LAMBDA f : f # <<>>)
    IN  /\ Len(fields) >= 2
        /\ unescape_pattern(fields[1]) = pattern
        /\ \E k \in 2..Len(fields) : fields[k] = FilterLfs

\* C31: a call of track_patterns with no pattern runs nothing; a call runs the tool
\* with exactly the requested patterns that .gitattributes does not record as
\* tracked, in the order of the request, and not at all when there is none; a call
\* that repeats the request of the call before it, which took effect, runs nothing.
C31_TrackPatternsIdempotent ==
  \A n \in 1..Len(git_lfs) :
    LET call == git_lfs[n]
        untracked == SelectSeq(call.patterns,
                               LAMBDA p : ~RecordedAsTracked(call.existing, p))
    IN  /\ call.patterns = <<>> => call.ran = <<>>
        /\ call.ran = IF untracked = <<>> THEN <<>> ELSE <<untracked>>
        /\ (n > 1 /\ ~git_lfs[n - 1].raised /\ git_lfs[n - 1].patterns = call.patterns)
             => call.ran = <<>>

\* The part of C31 that holds: no tool run for an empty request; the tool is run
\* with requested patterns only, in the order of the request, none of which has a
\* line "<pattern> filter=lfs ..." and every requested pattern left out has a line
\* beginning with it; and a repeated request of patterns without a blank, the
\* first call having returned, runs nothing.
C31_PlainPatternsIdempotent ==
  \A n \in 1..Len(git_lfs) :
    LET call == git_lfs[n]
        ran == IF call.ran = <<>> THEN <<>> ELSE call.ran[1]
        InRan(p) == \E k \in 1..Len(ran) : ran[k] = p
    IN  /\ call.patterns = <<>> => call.ran = <<>>
        /\ call.ran # <<>> => ran # <<>>
        /\ ran = SelectSeq(call.patterns, InRan)
        /\ \A k \in 1..Len(call.patterns) :
             IF InRan(call.patterns[k])
             THEN ~HasLine(call.existing, call.patterns[k] \o <<" ", "f", "i", "l", "t", "e", "r", "=", "l", "f", "s">>)
             ELSE HasLine(call.existing, call.patterns[k])
        /\ (/\ n > 1 /\ ~git_lfs[n - 1].raised /\ git_lfs[n - 1].patterns = call.patterns
            /\ \A k \in 1..Len(call.patterns) : call.patterns[k] # PatternBlank)
             => call.ran = <<>>

\* track_patterns was called twice with the file "a b.bin"; the first call ran the
\* tool and returned, and the second ran the tool again.
C31_Witness ==
  /\ Len(git_lfs) = 2
  /\ git_lfs[1] = Tracked(<<PatternBlank>>, <<>>, << <<PatternBlank>> >>, FALSE)
  /\ git_lfs[2].patterns = <<PatternBlank>>
  /\ git_lfs[2].ran = << <<PatternBlank>> >>
  /\ RecordedAsTracked(git_lfs[2].existing, PatternBlank)

\* ---- finalizing a proposed release

\* The merge request Finalize was called for was open when Finalize started, and no
\* release had been finalized before.
OpenAtStart(mr_id) == mr_id \in 1..Len(before[2]) /\ before[2][mr_id].state = "opened"
NoneMergedAtStart == \A i \in 1..Len(before[2]) : before[2][i].state # "merged"

\* Finalize was called with the signature Propose computed for the merge request,
\* the workspace still has that fingerprint, and no collaborator call has failed.
FinalizesProposed ==
  /\ frame.op = "finalize" /\ OpenAtStart(frame.mr_id)
  /\ merge_requests[frame.mr_id].signature = frame.srb_signature
  /\ calculate_bundle_hash(workspace) = frame.srb_signature
  /\ failures = 0

\* C32: every proposed release can be finalized: when Finalize(mr_id, s) of a release
\* proposed with signature s has ended, the workspace unchanged and no collaborator
\* call failed, it has succeeded and has merged, tagged and approved.
C32_ProposedCanBeFinalized ==
  (FinalizesProposed /\ pc = "done") =>
    /\ outcome = Ok
    /\ \E i, j, k \in 1..Len(calls) :
         /\ Returned(i, "merge_merge_request") /\ Returned(j, "create_tag")
         /\ Returned(k, "approve_release")

\* C32 fails for the first release: the provider has no tag, Propose succeeded, and
\* the Finalize of its merge request ended with an error before the merge.
C32_Witness ==
  /\ FinalizesProposed /\ pc = "done" /\ tags = <<>>
  /\ outcome = RuntimeError /\ CallNames = <<"verify_signature", "get_current_version">>
  /\ merge_requests[frame.mr_id].state = "opened"

\* The name Finalize gave to create_tag (the provider appends the tag it creates).
CreatedTag == tags[Len(tags)]

\* Finalize of a proposed release has created its tag.
TagCreated ==
  /\ frame.op = "finalize" /\ OpenAtStart(frame.mr_id) /\ NoneMergedAtStart
  /\ \E i \in 1..Len(calls) : Returned(i, "create_tag")

\* C33: the tag Finalize creates is named after the version N of the release (the
\* one of its branch candidate/N), and no tag of that name existed at the provider
\* when Finalize started.
C33_TagIsNextVersion ==
  TagCreated =>
    /\ CandidateBranch(CreatedTag) = merge_requests[frame.mr_id].source_branch
    /\ \A i \in 1..Len(before[3]) : before[3][i] # CreatedTag

\* C33 happens: Finalize of a release proposed from a tagged version has created
\* its tag.
C33_Witness ==
  /\ TagCreated /\ pc = "done" /\ outcome = Ok
  /\ before[3] = <<FirstTag>>
  /\ merge_requests[frame.mr_id].source_branch # CandidateBranch(FirstTag)

\* The signature of a successful Propose: computed once, after the bundle and before
\* the staging, the fingerprint of the committed tree, in the audit trail of the
\* commit with role SRE, and in the merge request.
SignedOnceAndRecorded ==
  /\ Len(SelectSeq(CallNames, LAMBDA c : c = "create_signature")) = 1
  /\ \E i, j, k, l \in 1..Len(calls) :
       /\ i < j /\ j < k /\ k < l
       /\ Returned(i, "bundle") /\ Returned(j, "create_signature")
       /\ Returned(k, "add_all") /\ Returned(l, "commit")
  /\ frame.signature = calculate_bundle_hash(repo.heads[repo.branch].tree)
  /\ repo.heads[repo.branch].signature = frame.signature
  /\ repo.heads[repo.branch].signer_role = "SRE"
  /\ merge_requests[frame.new_mr_id].signature = frame.signature

\* C34: in a successful Propose the signature is computed once, between the bundle
\* and the staging, over the tree that is committed, and the same value is in the
\* commit's audit trail (role SRE), was sent to the audit sink and is in the merge
\* request.
C34_OneSignatureEverywhere ==
  Succeeded("propose") =>
    /\ SignedOnceAndRecorded
    /\ \E i \in 1..Len(calls) : Returned(i, EmitAudit)

\* C34 without the audit sink: the signature is computed once, between the bundle and
\* the staging, over the committed tree, and is in the commit and the merge request.
C34_OneSignatureCommitted ==
  Succeeded("propose") => SignedOnceAndRecorded

\* C34 happens: a Propose has succeeded.
C34_Witness ==
  /\ Succeeded("propose") /\ MergeRequestExists(frame.new_mr_id)
  /\ frame.signature = calculate_bundle_hash(workspace)

\* ---- the hashed stream

\* The (relative path, content) pairs of the hashed files of a tree.
HashedPairs(tree) == {<<p, tree[p].content>> : p \in HashedPaths(tree)}

\* C35: the hashed stream determines the file set: a tree whose set of (relative
\* path, content) pairs differs from the one of the signed tree never yields the
\* stream of the signed tree.
C35_StreamDeterminesFileSet ==
  (signer.pc = "verified" /\ HashedPairs(workspace) # HashedPairs(signer.tree)) =>
    signer.fingerprint # signer.signature

\* C35 fails: the trees {a: "", b: "b"} and {a: "b", b: ""} have been hashed and
\* both gave the stream "abb".
C35_Witness ==
  /\ signer.pc = "verified"
  /\ HashedPairs(signer.tree) = {<<FileA, <<>>>>, <<FileB, <<"b">>>>}
  /\ HashedPairs(workspace) = {<<FileA, <<"b">>>>, <<FileB, <<>>>>}
  /\ signer.signature = <<"a", "b", "b">> /\ signer.fingerprint = <<"a", "b", "b">>

\* ---- requests to the draft-review service

\* The methods that change the state of the draft-review service.
StateChanging == {"submit_for_review", "approve_release", "reject_release"}

\* C36: a state-changing call of the draft-review client takes effect at the service
\* at most once, whatever attempts lose their response and are retried.
C36_AtMostOnce ==
  http.method \in StateChanging => http.effects <= 1

\* A call whose attempts all got a response takes effect at most once.
C36_AtMostOnceWhenAnswered ==
  (/\ http.method \in StateChanging
   /\ \A i \in 1..Len(http.requests) : IsResponse(http.requests[i])) => http.effects <= 1

\* C36 fails: the first attempt of approve_release timed out after the service had
\* carried it out, the retry was answered with 200, and the request took effect twice.
C36_Witness ==
  /\ http.pc = "done" /\ http.method = "approve_release" /\ http.result = Ok
  /\ http.requests = <<[error |-> TimeoutException], [status_code |-> 200, body |-> "dict"]>>
  /\ http.effects = 2

\* ---- version files

\* The content of a file of a tree, empty when the file is absent.
ContentOf(tree, p) == IF p \in DOMAIN tree THEN tree[p].content ELSE <<>>

\* The lines of a text that are version headings, in order.
Headings(text) ==
  SelectSeq(Split(text, "\n"), LAMBDA line : StartsWithAt(line, 1, HeadingPrefix))

\* The lines of a text ahead of its first version heading.
RECURSIVE AheadOfHeadings(_)
AheadOfHeadings(lines) ==
  IF lines = <<>> \/ StartsWithAt(Head(lines), 1, HeadingPrefix) THEN <<>>
  ELSE <<Head(lines)>> \o AheadOfHeadings(Tail(lines))

\* The members of a occur in b in the order of a.
RECURSIVE IsSubsequence(_, _)
IsSubsequence(a, b) ==
  IF a = <<>> THEN TRUE
  ELSE IF b = <<>> THEN FALSE
  ELSE IF Head(a) = Head(b) THEN IsSubsequence(Tail(a), Tail(b))
  ELSE IsSubsequence(a, Tail(b))

\* The headings of the versions update_files was called with, last call first.
PersistedHeadings ==
  LET versions == version_files.versions
      n == Len(versions)
  IN  [i \in 1..n |-> ChangelogHeader(versions[n + 1 - i]) ]

\* C37: after any sequence of update_files calls the version headings of the
\* change-log are those of the calls in reverse order followed by the headings the
\* file had, the text ahead of the first heading it had is still ahead of every
\* heading, and every line the file had is present in its original order.
C37_NewestFirst ==
  LET original == ContentOf(version_files.original, ChangelogPath)
      content == ContentOf(workspace, ChangelogPath)
  IN  /\ Headings(content) = PersistedHeadings \o Headings(original)
      /\ (Headings(original) # <<>> /\ version_files.versions # <<>>) =>
           AheadOfHeadings(Split(content, "\n")) = AheadOfHeadings(Split(original, "\n"))
      /\ IsSubsequence(Split(original, "\n"), Split(content, "\n"))

\* C37 happens: three versions were persisted to a change-log that had a heading
\* and text around it.
C37_Witness ==
  /\ version_files.versions = <<FormatVersion(0, 2, 0), FormatVersion(1, 1, 0),
                                FormatVersion(0, 2, 0)>>
  /\ Len(Headings(ContentOf(version_files.original, ChangelogPath))) = 1
  /\ Len(AheadOfHeadings(Split(ContentOf(version_files.original, ChangelogPath), "\n"))) = 3
  /\ Len(Headings(ContentOf(workspace, ChangelogPath))) = 4

\* The root-level version key of a text: where the first line that starts with
\* "version:" starts (0 without such a line).
VersionKeyAt(text) ==
  LET keys == {i \in 1..Len(text) :
                 (i = 1 \/ text[i - 1] = "\n") /\ StartsWithAt(text, i, VersionKey)}
  IN  IF keys = {} THEN 0 ELSE CHOOSE i \in keys : \A k \in keys : i <= k

\* The value of the key that starts at index i: from after the blanks and the
\* opening quote that follow the colon, up to the closing quote, a blank or the
\* end of the line.
KeyValueStart(text, i) ==
  LET j == CHOOSE j \in (i + Len(VersionKey))..(Len(text) + 1) :
             /\ \A k \in (i + Len(VersionKey))..(j - 1) : text[k] = " "
             /\ (j = Len(text) + 1 \/ text[j] # " ")
  IN  IF j <= Len(text) /\ IsQuote(text[j]) THEN j + 1 ELSE j
KeyValueEnd(text, i) ==
  CHOOSE j \in KeyValueStart(text, i)..(Len(text) + 1) :
    /\ \A k \in KeyValueStart(text, i)..(j - 1) : IsValueChar(text[k])
    /\ (j = Len(text) + 1 \/ ~IsValueChar(text[j]))

\* The last version update_files was called with, without its "v".
PersistedVersion == WithoutLeadingV(version_files.versions[Len(version_files.versions)])

\* agent.yaml is the original with the value of its version key replaced.
OnlyValueReplaced ==
  LET original == ContentOf(version_files.original, AgentYamlPath)
      i == VersionKeyAt(original)
  IN  ContentOf(workspace, AgentYamlPath) =
        SubSeq(original, 1, KeyValueStart(original, i) - 1) \o PersistedVersion
          \o SubSeq(original, KeyValueEnd(original, i), Len(original))

\* C38: update_files changes only the value of the version key of agent.yaml and
\* the version read back is the new one without its "v"; an absent file is created
\* with only the version line.
C38_OnlyValueChanges ==
  version_files.versions # <<>> =>
    /\ _read_agent_yaml_version(workspace) = PersistedVersion
    /\ AgentYamlPath \notin DOMAIN version_files.original =>
         ContentOf(workspace, AgentYamlPath) = VersionLine(PersistedVersion)
    /\ (/\ AgentYamlPath \in DOMAIN version_files.original
        /\ VersionKeyAt(ContentOf(version_files.original, AgentYamlPath)) # 0) =>
         OnlyValueReplaced

\* C38 for a version key that has a value on its line.
C38_OnlyPresentValueChanges ==
  version_files.versions # <<>> =>
    /\ _read_agent_yaml_version(workspace) = PersistedVersion
    /\ AgentYamlPath \notin DOMAIN version_files.original =>
         ContentOf(workspace, AgentYamlPath) = VersionLine(PersistedVersion)
    /\ (/\ AgentYamlPath \in DOMAIN version_files.original
        /\ LET original == ContentOf(version_files.original, AgentYamlPath)
               i == VersionKeyAt(original)
           IN  i # 0 /\ KeyValueEnd(original, i) > KeyValueStart(original, i)) =>
         OnlyValueReplaced

\* C38 fails: the version key of agent.yaml had no value, and update_files has
\* replaced the name of the key on the next line.
C38_Witness ==
  /\ version_files.versions = <<FormatVersion(0, 2, 0)>>
  /\ ContentOf(version_files.original, AgentYamlPath) = <<"v", "e", "r", "s", "i", "o", "n", ":", "\n", "n", "a", "m", "e", ":", " ", "t", "e", "s", "t", "\n">>
  /\ ContentOf(workspace, AgentYamlPath) = <<"v", "e", "r", "s", "i", "o", "n", ":", "\n", "0", ".", "2", ".", "0", " ", "t", "e", "s", "t", "\n">>

\* ---- co-location collisions

\* The files co-location moves, and those of them with the given file name.
MovedFiles ==
  {p \in AllowListed : ~InParts(DotGit, p) /\ ~InParts(ModelsDir, p) /\ ~InParts(TestsDir, p)}
MovedAs(file_name) == {p \in MovedFiles : name(p) = file_name}

\* A file name collides: two or more moved files have it, or one has it and
\* models/distilled/ already held a file of that name.
Collides(file_name) ==
  \/ Cardinality(MovedAs(file_name)) >= 2
  \/ /\ MovedAs(file_name) # {}
     /\ DistilledDir \o <<file_name>> \in DOMAIN bundler.post_offload
     /\ bundler.post_offload[DistilledDir \o <<file_name>>].kind = "file"

\* C39: after co-location, for every colliding file name models/distilled/ holds a
\* file of that name, it is one of the moved files of that name (not the file
\* models/distilled/ held before), and every moved file of that name has left its
\* source path.
C39_CollisionsOverwrite ==
  CoLocated =>
    \A p \in MovedFiles :
      Collides(name(p)) =>
        /\ p \notin DOMAIN workspace
        /\ MovedTo(p) \in DOMAIN workspace
        /\ workspace[MovedTo(p)].kind = "file"
        /\ \E q \in MovedAs(name(p)) : workspace[MovedTo(p)] = bundler.post_offload[q]

\* C39 happens: models/distilled/w.bin existed, and co-location has replaced it with
\* the w.bin of the workspace root.
C39_Witness ==
  /\ CoLocated
  /\ DistilledWBin \in DOMAIN bundler.post_offload /\ WBin \in MovedFiles
  /\ WBin \notin DOMAIN workspace
  /\ workspace[DistilledWBin] = bundler.post_offload[WBin]
  /\ workspace[DistilledWBin] # bundler.post_offload[DistilledWBin]

\* Two moved files were named w.bin, and models/distilled/w.bin is the one that
\* came from the subdirectory.
C39_SharedNameWitness ==
  /\ CoLocated
  /\ MovedAs(name(WBin)) = {WBin, SubWBin}
  /\ WBin \notin DOMAIN workspace /\ SubWBin \notin DOMAIN workspace
  /\ workspace[DistilledWBin] = bundler.post_offload[SubWBin]

====
